---- MODULE Spec2Model ----
(***************************************************************************)
(* State-based FTP/SFTP site synchronisation: the StateManager             *)
(* (state-manager.js) and the orchestrating run() of index.js.             *)
(*                                                                         *)
(* JavaScript values are records tagged by `kind`; a plain object is the   *)
(* sequence of its own properties in insertion order, each [key, value].   *)
(***************************************************************************)
EXTENDS Integers, Sequences, FiniteSets, TLC

VARIABLES
    cmpLocal,    \* localState argument of the StateManager under test
    cmpRemote,   \* remoteState argument (a manifest or null)
    cmpLog,      \* the compareStates calls made so far: [local, remote, out]
    inputs,      \* run(): protocol, password, privateKey (given or not),
                 \* dryRun, deleteOrphaned, forceFullSync
    client,      \* run(): the client created, "none" before
    runNo,       \* the number of this run against the remote root
    prev,        \* the run before this one: how it ended and what it saw
    localTree,   \* the local files: path -> content, "none" when there is none
    remoteTree,  \* the files under the remote root, the state file apart
    stateFile,   \* the state file under the remote root
    before,      \* remoteTree and stateFile when the run started
    pc,          \* where run() stands
    localState,  \* run(): localState
    remoteState, \* run(): remoteState
    comparison,  \* run(): comparison
    idx,         \* run(): i, the index of the upload loop, then of the deletion loop
    filesUploaded,
    filesDeleted,
    outputs,     \* core.setOutput: name -> value, "unset" before
    failed,      \* core.setFailed: the message, "none" before
    error,       \* the exception the inner try left for finally and catch
    calls,       \* the client calls made, in order: [op, path, ok]
    inFlight,    \* the client calls started and not yet settled
    rtClient,    \* a client handed to a StateManager: has it exists(), its file
    rtManifest,  \* the state handed to uploadState
    rtLast,      \* what the last downloadRemoteState did
    rtCount,     \* the StateManager calls made on rtClient
    ftpConn,     \* FtpClient.connect: the race of access and the timeout
    ftpSrv,      \* the FTP server an FtpClient talks to
    ftpLast,     \* what the last uploadFile or ensureRemoteDir of the FtpClient did
    sftpSrv,     \* what the ssh2-sftp-client of an SshSftpClient answers
    sftpLast     \* what the last uploadFile of the SshSftpClient did

cmpVars == <<cmpLocal, cmpRemote, cmpLog>>

histVars == <<runNo, prev>>

runVars ==
    <<histVars, client, inputs, localTree, remoteTree, stateFile, before, pc, localState,
      remoteState, comparison, idx, filesUploaded, filesDeleted, outputs, failed,
      error, calls, inFlight>>

rtVars == <<rtClient, rtManifest, rtLast, rtCount>>

tpVars == <<ftpConn, ftpSrv, ftpLast, sftpSrv, sftpLast>>

vars == <<cmpVars, rtVars, tpVars, runVars>>

----------------------------------------------------------------------------
(* Bounds *)

MaxFiles == 2    \* entries per manifest
MaxCalls == 3    \* compareStates calls on one StateManager

----------------------------------------------------------------------------
(* JavaScript values and property lookup *)

Undefined == [kind |-> "undefined"]
Null == [kind |-> "null"]
\* what a name of Object.prototype evaluates to on any plain object
ProtoFunction == [kind |-> "function"]

\* the properties every plain object ({} or a JSON.parse result) inherits
ObjectPrototype ==
    {"constructor", "hasOwnProperty", "isPrototypeOf", "propertyIsEnumerable",
     "toLocaleString", "toString", "valueOf", "__proto__"}

KeySet(obj) == {obj[i].key : i \in 1..Len(obj)}

HasOwn(obj, key) == key \in KeySet(obj)

\* the own property of obj named key (undefined when it has none)
OwnValue(obj, key) ==
    IF HasOwn(obj, key)
    THEN obj[CHOOSE i \in 1..Len(obj) : obj[i].key = key].value
    ELSE Undefined

\* obj[key]: the own property, else the inherited one, else undefined
Get(obj, key) ==
    IF HasOwn(obj, key)
    THEN obj[CHOOSE i \in 1..Len(obj) : obj[i].key = key].value
    ELSE IF key \in ObjectPrototype THEN ProtoFunction ELSE Undefined

\* !v is false for objects and functions, true for undefined and null
Truthy(v) == v.kind \notin {"undefined", "null"}

\* v.hash: the field of a file record; undefined on a function object
HashOf(v) == IF v.kind = "object" THEN v.hash ELSE "undefined"

----------------------------------------------------------------------------
(* Manifests *)

Paths == {"a.txt", "b.txt", "toString"}

\* file.path of the scanned file whose file.remotePath is p
LocalPathOf(p) ==
    CASE p = "a.txt" -> "site/a.txt"
      [] p = "b.txt" -> "site/b.txt"
      [] OTHER -> "site/toString"

\* (hash, size, mtime) of the file records the model draws from: the first two
\* share the hash and differ in size and mtime, the third differs in hash only
Metas ==
    {[hash |-> "h1", size |-> 10, mtime |-> "t1"],
     [hash |-> "h1", size |-> 20, mtime |-> "t2"],
     [hash |-> "h2", size |-> 10, mtime |-> "t1"]}

FileRecord(p, m) ==
    [kind |-> "object", hash |-> m.hash, size |-> m.size, mtime |-> m.mtime,
     localPath |-> LocalPathOf(p)]

Entry(p, m) == [key |-> p, value |-> FileRecord(p, m)]

\* the objects with at most n own properties, keys distinct, in every order
RECURSIVE FilesObjects(_)
FilesObjects(n) ==
    IF n = 0 THEN {<<>>}
    ELSE LET smaller == FilesObjects(n - 1)
         IN smaller \cup
            {Append(o, Entry(p, m)) :
                <<o, p, m>> \in {t \in smaller \X Paths \X Metas :
                                    Len(t[1]) = n - 1 /\ ~HasOwn(t[1], t[2])}}

Manifest(files, when) ==
    [kind |-> "object", version |-> "1.0.0", lastSync |-> when, files |-> files]

Manifests == {Manifest(f, "T0") : f \in FilesObjects(MaxFiles)}

\* the same manifest as written by an engine of another version
OtherVersion(m) == [m EXCEPT !.version = "0.9.0"]

----------------------------------------------------------------------------
(* StateManager.compareStates *)

NewResult ==
    [filesToUpload |-> <<>>,
     filesToDelete |-> <<>>,
     stats |-> [unchanged |-> 0, modified |-> 0, new |-> 0, deleted |-> 0]]

\* faulty variant: a record whose size differs counts as modified too
CheckLocalFile_SizeToo(result, remotePath, localFile, remoteFiles) ==
    LET remoteFile == Get(remoteFiles, remotePath)
    IN IF ~Truthy(remoteFile)
       THEN [result EXCEPT
                !.filesToUpload = Append(@,
                    [action |-> "new", remotePath |-> remotePath,
                     localPath |-> localFile.localPath, hash |-> localFile.hash]),
                !.stats.new = @ + 1]
       ELSE IF HashOf(remoteFile) # localFile.hash
               \/ (remoteFile.kind = "object" /\ remoteFile.size # localFile.size)
       THEN [result EXCEPT
                !.filesToUpload = Append(@,
                    [action |-> "modified", remotePath |-> remotePath,
                     localPath |-> localFile.localPath, hash |-> localFile.hash,
                     oldHash |-> HashOf(remoteFile)]),
                !.stats.modified = @ + 1]
       ELSE [result EXCEPT !.stats.unchanged = @ + 1]

\* one iteration of the loop over Object.entries(localFiles)
CheckLocalFile(result, remotePath, localFile, remoteFiles) ==
    LET remoteFile == Get(remoteFiles, remotePath)
    IN IF ~Truthy(remoteFile)
       THEN [result EXCEPT
                !.filesToUpload = Append(@,
                    [action |-> "new", remotePath |-> remotePath,
                     localPath |-> localFile.localPath, hash |-> localFile.hash]),
                !.stats.new = @ + 1]
       ELSE IF HashOf(remoteFile) # localFile.hash
       THEN [result EXCEPT
                !.filesToUpload = Append(@,
                    [action |-> "modified", remotePath |-> remotePath,
                     localPath |-> localFile.localPath, hash |-> localFile.hash,
                     oldHash |-> HashOf(remoteFile)]),
                !.stats.modified = @ + 1]
       ELSE [result EXCEPT !.stats.unchanged = @ + 1]

\* faulty variant: the test of the deletion loop inverted
CheckRemoteFile_Inverted(result, remotePath, localFiles) ==
    IF Truthy(Get(localFiles, remotePath))
    THEN [result EXCEPT !.filesToDelete = Append(@, remotePath),
                        !.stats.deleted = @ + 1]
    ELSE result

\* one iteration of the loop over Object.keys(remoteFiles)
CheckRemoteFile(result, remotePath, localFiles) ==
    IF ~Truthy(Get(localFiles, remotePath))
    THEN [result EXCEPT !.filesToDelete = Append(@, remotePath),
                        !.stats.deleted = @ + 1]
    ELSE result

RECURSIVE CheckLocalFiles(_, _, _, _)
CheckLocalFiles(result, localFiles, remoteFiles, i) ==
    IF i > Len(localFiles) THEN result
    ELSE CheckLocalFiles(
            CheckLocalFile(result, localFiles[i].key, localFiles[i].value, remoteFiles),
            localFiles, remoteFiles, i + 1)

RECURSIVE CheckRemoteFiles(_, _, _, _)
CheckRemoteFiles(result, localFiles, remoteFiles, i) ==
    IF i > Len(remoteFiles) THEN result
    ELSE CheckRemoteFiles(
            CheckRemoteFile(result, remoteFiles[i].key, localFiles),
            localFiles, remoteFiles, i + 1)

RemoteFilesOf(remote) ==
    IF Truthy(remote) THEN remote.files ELSE <<>>

\* faulty variant: the result object is kept from one call to the next
compareStates_SharedResult(local, remote) ==
    LET remoteFiles == RemoteFilesOf(remote)
        localFiles == local.files
        kept == IF cmpLog = <<>> THEN NewResult ELSE cmpLog[Len(cmpLog)].out
    IN CheckRemoteFiles(
            CheckLocalFiles(kept, localFiles, remoteFiles, 1),
            localFiles, remoteFiles, 1)

compareStates(local, remote) ==
    LET remoteFiles == RemoteFilesOf(remote)
        localFiles == local.files
    IN CheckRemoteFiles(
            CheckLocalFiles(NewResult, localFiles, remoteFiles, 1),
            localFiles, remoteFiles, 1)

----------------------------------------------------------------------------
(* The local tree, FileScanner.scanFiles and StateManager.buildLocalState *)

NoFile == "none"

\* crypto.createHash('md5').update(fileBuffer).digest('hex')
Md5(content) ==
    CASE content = "c1" -> "h1"
      [] content = "c2" -> "h2"
      [] OTHER -> "h0"

\* fs.stat(file.path).size
StatSize(content) ==
    CASE content = "c1" -> 10
      [] content = "c2" -> 20
      [] OTHER -> 5

\* fs.stat(file.path).mtime.toISOString()
StatMtime(content) == IF content = "c1" THEN "t1" ELSE "t2"

PathOrder == <<"a.txt", "b.txt", "toString">>

\* the scanned files, each [path, remotePath], in path order; the state file's
\* own name is not among the paths of the local tree
ScanFiles(tree) ==
    LET found == SelectSeq(PathOrder, LAMBDA p : tree[p] # NoFile)
    IN [n \in 1..Len(found) |->
            [path |-> LocalPathOf(found[n]), remotePath |-> found[n]]]

\* obj[key] = value on a plain object
SetProp(obj, key, value) ==
    IF HasOwn(obj, key)
    THEN [n \in 1..Len(obj) |->
            IF obj[n].key = key THEN [key |-> key, value |-> value] ELSE obj[n]]
    ELSE Append(obj, [key |-> key, value |-> value])

RECURSIVE BuildFiles(_, _, _, _)
BuildFiles(files, tree, n, acc) ==
    IF n > Len(files) THEN acc
    ELSE LET content == tree[files[n].remotePath]
         IN BuildFiles(files, tree, n + 1,
                SetProp(acc, files[n].remotePath,
                    [kind |-> "object", hash |-> Md5(content),
                     size |-> StatSize(content), mtime |-> StatMtime(content),
                     localPath |-> files[n].path]))

buildLocalState(files, tree, now) ==
    [kind |-> "object", version |-> "1.0.0", lastSync |-> now,
     files |-> BuildFiles(files, tree, 1, <<>>)]

----------------------------------------------------------------------------
(* The state file: StateManager.uploadState and downloadRemoteState *)

StateFileName == ".ftp-sync-state.json"

Absent == [kind |-> "absent"]

\* JSON text as the sequence of its tokens (white space carries no meaning)
LBrace == [t |-> "{"]
RBrace == [t |-> "}"]
NullTok == [t |-> "null"]
KeyTok(k) == [t |-> "key", v |-> k]
StrTok(str) == [t |-> "str", v |-> str]
NumTok(n) == [t |-> "num", n |-> n]

\* faulty variant: the local path is left out of the file records written
StringifyFile_NoLocalPath(rec) ==
    <<LBrace, KeyTok("hash"), StrTok(rec.hash), KeyTok("size"), NumTok(rec.size),
      KeyTok("mtime"), StrTok(rec.mtime), RBrace>>

\* JSON.stringify of a file record: its properties in insertion order
StringifyFile(rec) ==
    <<LBrace, KeyTok("hash"), StrTok(rec.hash), KeyTok("size"), NumTok(rec.size),
      KeyTok("mtime"), StrTok(rec.mtime), KeyTok("localPath"), StrTok(rec.localPath),
      RBrace>>

\* JSON.stringify of the files mapping from its n-th property on
RECURSIVE StringifyFiles(_, _)
StringifyFiles(files, n) ==
    IF n > Len(files) THEN <<>>
    ELSE <<KeyTok(files[n].key)>> \o StringifyFile(files[n].value)
            \o StringifyFiles(files, n + 1)

\* JSON.stringify(state, null, 2): the text of null or of a state object
JsonStringify(state) ==
    [kind |-> "text",
     json |-> IF state.kind = "null" THEN <<NullTok>>
              ELSE <<LBrace, KeyTok("version"), StrTok(state.version),
                     KeyTok("lastSync"), StrTok(state.lastSync),
                     KeyTok("files"), LBrace>>
                   \o StringifyFiles(state.files, 1) \o <<RBrace, RBrace>>]

\* text that is no JSON, and the JSON text {}
GarbageText == [kind |-> "text", json |-> <<[t |-> "garbage"]>>]
EmptyObjectText == [kind |-> "text", json |-> <<LBrace, RBrace>>]

ParseFailed == [ok |-> FALSE, value |-> Null, next |-> 0]

\* the object with the properties props; only the files mapping of a state
\* keeps the order of its keys, the other objects are read by property name
AsObject(props, asMap) ==
    IF asMap THEN props
    ELSE [k \in KeySet(props) \cup {"kind"} |->
            IF k = "kind" THEN "object" ELSE OwnValue(props, k)]

\* JSON.parse from token i on: the value read and the place after it.
\* ParseMembers reads "key": value pairs up to the closing brace; a key met
\* twice keeps its last value
RECURSIVE ParseValue(_, _, _)
RECURSIVE ParseMembers(_, _, _, _)
ParseValue(toks, i, asMap) ==
    IF i > Len(toks) THEN ParseFailed
    ELSE CASE toks[i].t = "str" -> [ok |-> TRUE, value |-> toks[i].v, next |-> i + 1]
           [] toks[i].t = "num" -> [ok |-> TRUE, value |-> toks[i].n, next |-> i + 1]
           [] toks[i].t = "null" -> [ok |-> TRUE, value |-> Null, next |-> i + 1]
           [] toks[i].t = "{" -> ParseMembers(toks, i + 1, <<>>, asMap)
           [] OTHER -> ParseFailed

ParseMembers(toks, i, props, asMap) ==
    IF i > Len(toks) THEN ParseFailed
    ELSE IF toks[i].t = "}"
    THEN [ok |-> TRUE, value |-> AsObject(props, asMap), next |-> i + 1]
    ELSE IF toks[i].t # "key" THEN ParseFailed
    ELSE LET member == ParseValue(toks, i + 1, ~asMap /\ toks[i].v = "files")
         IN IF ~member.ok THEN ParseFailed
            ELSE ParseMembers(toks, member.next,
                              SetProp(props, toks[i].v, member.value), asMap)

\* JSON.parse(stateContent) throws a SyntaxError on text that is no JSON
JsonParseThrows(text) ==
    LET read == ParseValue(text.json, 1, FALSE)
    IN ~read.ok \/ read.next # Len(text.json) + 1

JsonParse(text) == ParseValue(text.json, 1, FALSE).value

\* whether v.files is an object; Object.keys(v.files) throws when it is undefined
HasFiles(v) == v.kind = "object" /\ "files" \in DOMAIN v

Call(op, path, ok) == [op |-> op, path |-> path, ok |-> ok]

\* faulty variant: a client without exists() is asked for it all the same; the
\* TypeError is caught and the file counts as missing
RemoteFileExistsOutcomes_NoFallback(file, hasExists) ==
    IF hasExists
    THEN {[exists |-> FALSE, calls |-> <<Call("exists", StateFileName, FALSE)>>]}
         \cup (IF file = Absent THEN {}
               ELSE {[exists |-> TRUE,
                      calls |-> <<Call("exists", StateFileName, TRUE)>>]})
    ELSE {[exists |-> FALSE, calls |-> <<>>]}

\* what one remoteFileExists can answer, with the client calls it makes. With
\* exists(): its answer, false when it throws or fails. Without: a download to
\* a temporary file is tried, true when it succeeds and false when it throws
RemoteFileExistsOutcomes(file, hasExists) ==
    IF hasExists
    THEN {[exists |-> FALSE, calls |-> <<Call("exists", StateFileName, FALSE)>>]}
         \cup (IF file = Absent THEN {}
               ELSE {[exists |-> TRUE,
                      calls |-> <<Call("exists", StateFileName, TRUE)>>]})
    ELSE {[exists |-> FALSE, calls |-> <<Call("downloadFile", StateFileName, FALSE)>>]}
         \cup (IF file = Absent THEN {}
               ELSE {[exists |-> TRUE,
                      calls |-> <<Call("downloadFile", StateFileName, TRUE)>>]})

\* what one downloadRemoteState can do on a client: the state it returns,
\* whether it throws, and the client calls it makes. Not found: null at once.
\* Found: downloadFile may throw and JSON.parse may throw; the catch turns
\* each of them into null
DownloadRemoteStateOutcomes(file, hasExists) ==
    UNION {
        IF ~found.exists
        THEN {[state |-> Null, threw |-> FALSE, calls |-> found.calls]}
        ELSE {[state |-> Null, threw |-> FALSE,
               calls |-> Append(found.calls,
                                Call("downloadFile", StateFileName, FALSE))],
              [state |-> IF JsonParseThrows(file) THEN Null ELSE JsonParse(file),
               threw |-> FALSE,
               calls |-> Append(found.calls,
                                Call("downloadFile", StateFileName, TRUE))]} :
        found \in RemoteFileExistsOutcomes(file, hasExists)}

\* faulty variant: no try/catch around the download and the parse
DownloadOutcomes_NoCatch(file) ==
    {[state |-> Null, threw |-> FALSE,
      calls |-> <<Call("exists", StateFileName, FALSE)>>]}
    \cup
    (IF file = Absent THEN {}
     ELSE {[state |-> Null, threw |-> TRUE,
            calls |-> <<Call("exists", StateFileName, TRUE),
                        Call("downloadFile", StateFileName, FALSE)>>],
           [state |-> IF JsonParseThrows(file) THEN Null ELSE JsonParse(file),
            threw |-> JsonParseThrows(file),
            calls |-> <<Call("exists", StateFileName, TRUE),
                        Call("downloadFile", StateFileName, TRUE)>>]})

\* downloadRemoteState on the clients of run(): FtpClient and SshSftpClient
\* both have exists()
DownloadOutcomes(file) == DownloadRemoteStateOutcomes(file, TRUE)

----------------------------------------------------------------------------
(* run() of index.js *)

OutputNames == {"files-uploaded", "files-deleted", "sync-status"}

\* Number.prototype.toString of a counter
NumberToString(n) ==
    CASE n = 0 -> "0"
      [] n = 1 -> "1"
      [] n = 2 -> "2"
      [] n = 3 -> "3"
      [] OTHER -> "many"

\* faulty variant: the upload loop walks the plan from its end
UploadEntry_Reversed(plan, k) ==
    plan.filesToUpload[Len(plan.filesToUpload) - k + 1]

\* the entry at an index of the upload loop and of the deletion loop
UploadEntry(plan, k) == plan.filesToUpload[k]

DeleteEntry(plan, k) == plan.filesToDelete[k]

\* where run() goes once the upload loop is over
\* faulty variant: the deletion loop is entered whatever deleteOrphaned says
PhaseAfterUploads_NoPolicy(plan) ==
    IF Len(plan.filesToDelete) > 0
    THEN "delete" ELSE "publish"

PhaseAfterUploads(plan) ==
    IF inputs.deleteOrphaned /\ Len(plan.filesToDelete) > 0
    THEN "delete" ELSE "publish"

PhaseAfterCompare(plan) ==
    IF Len(plan.filesToUpload) > 0 THEN "upload" ELSE PhaseAfterUploads(plan)

\* the outer catch: core.setFailed and the sync-status output
Catch(message) ==
    /\ failed' = message
    /\ outputs' = [outputs EXCEPT !["sync-status"] = "failed"]
    /\ pc' = "done"

\* an exception inside the inner try: finally runs next, then the outer catch
Throw(message) ==
    /\ error' = message
    /\ pc' = "finally"

NoCall == [op |-> "none", path |-> ""]

\* the client call run() makes where it stands, NoCall when it makes none there
NextCall ==
    CASE pc = "connect" -> [op |-> "connect", path |-> ""]
      [] pc = "retrieve" /\ ~inputs.forceFullSync ->
            [op |-> "downloadRemoteState", path |-> StateFileName]
      [] pc = "upload" /\ ~inputs.dryRun ->
            [op |-> "uploadFile", path |-> UploadEntry(comparison, idx).remotePath]
      [] pc = "delete" /\ ~inputs.dryRun ->
            [op |-> "deleteFile", path |-> DeleteEntry(comparison, idx)]
      [] pc = "publish" /\ ~inputs.dryRun ->
            [op |-> "uploadState", path |-> StateFileName]
      [] pc = "finally" -> [op |-> "disconnect", path |-> ""]
      [] OTHER -> NoCall

\* await: run() goes on when the call it started has settled
Await ==
    IF NextCall = NoCall
    THEN UNCHANGED inFlight
    ELSE inFlight = <<NextCall>> /\ inFlight' = <<>>

\* faulty variant: the upload loop starts an upload and goes on to the next
\* entry without awaiting it
RunCallClient_NoAwait ==
    /\ NextCall # NoCall
    /\ IF pc = "upload"
       THEN /\ inFlight' = Append(inFlight, NextCall)
            /\ idx' = IF idx < Len(comparison.filesToUpload) THEN idx + 1 ELSE idx
            /\ \A j \in 1..Len(inFlight) : inFlight[j] # NextCall
       ELSE /\ inFlight = <<>>
            /\ inFlight' = <<NextCall>>
            /\ idx' = idx
    /\ UNCHANGED <<cmpVars, rtVars, tpVars, histVars, client, inputs, localTree, remoteTree,
                   stateFile, before, pc, localState, remoteState, comparison,
                   filesUploaded, filesDeleted, outputs, failed, error, calls>>

\* run() starts the client call of where it stands and is suspended
RunCallClient ==
    /\ NextCall # NoCall
    /\ inFlight = <<>>
    /\ inFlight' = <<NextCall>>
    /\ UNCHANGED <<cmpVars, rtVars, tpVars, histVars, client, inputs, localTree, remoteTree,
                   stateFile, before, pc, localState, remoteState, comparison, idx,
                   filesUploaded, filesDeleted, outputs, failed, error, calls>>

\* faulty variant: the inputs are not validated
ConfigInvalid_Never(in) == FALSE

\* protocol === 'sftp' && !privateKey && !password
ConfigInvalid(in) == in.protocol = "sftp" /\ ~in.privateKey /\ ~in.password

\* protocol 'sftp' with neither password nor private key
RunConfigError ==
    /\ pc = "start"
    /\ ConfigInvalid(inputs)
    /\ Catch("SFTP requires either a password or private key")
    /\ Await
    /\ UNCHANGED <<cmpVars, rtVars, tpVars, histVars, client, inputs, localTree, remoteTree, stateFile, before,
                   localState, remoteState, comparison, idx, filesUploaded,
                   filesDeleted, error, calls>>

\* new Date().toISOString() during the n-th run
Now(n) == IF n = 1 THEN "T1" ELSE IF n = 2 THEN "T2" ELSE "T3"

RunBuildLocalState ==
    /\ pc = "start"
    /\ ~ConfigInvalid(inputs)
    /\ localState' = buildLocalState(ScanFiles(localTree), localTree, Now(runNo))
    /\ pc' = "connect"
    /\ Await
    /\ UNCHANGED <<cmpVars, rtVars, tpVars, histVars, client, inputs, localTree, remoteTree, stateFile, before,
                   remoteState, comparison, idx, filesUploaded, filesDeleted,
                   outputs, failed, error, calls>>

\* faulty variant: the unreadable file is left out and the run goes on
RunBuildLocalStateFails_GoesOn ==
    /\ pc = "start"
    /\ ~ConfigInvalid(inputs)
    /\ ScanFiles(localTree) # <<>>
    /\ localState' = buildLocalState(Tail(ScanFiles(localTree)), localTree, Now(runNo))
    /\ error' = "Failed to calculate hash"
    /\ pc' = "connect"
    /\ Await
    /\ UNCHANGED <<cmpVars, rtVars, tpVars, histVars, client, inputs, localTree, remoteTree,
                   stateFile, before, remoteState, comparison, idx, filesUploaded,
                   filesDeleted, outputs, failed, calls>>

\* fs.readFile or fs.stat of a scanned file throws
RunBuildLocalStateFails ==
    /\ pc = "start"
    /\ ~ConfigInvalid(inputs)
    /\ ScanFiles(localTree) # <<>>
    /\ Catch("Failed to calculate hash")
    /\ Await
    /\ UNCHANGED <<cmpVars, rtVars, tpVars, histVars, client, inputs, localTree, remoteTree, stateFile, before,
                   localState, remoteState, comparison, idx, filesUploaded,
                   filesDeleted, error, calls>>

\* new SftpClient(...) for protocol 'sftp', new FtpClient(...) otherwise
ClientFor(protocol) == IF protocol = "sftp" THEN "sftp" ELSE "ftp"

RunConnect ==
    /\ pc = "connect"
    /\ client' = ClientFor(inputs.protocol)
    /\ calls' = Append(calls, Call("connect", "", TRUE))
    /\ filesUploaded' = 0
    /\ filesDeleted' = 0
    /\ pc' = "retrieve"
    /\ Await
    /\ UNCHANGED <<cmpVars, rtVars, tpVars, histVars, inputs, localTree, remoteTree, stateFile, before,
                   localState, remoteState, comparison, idx, outputs, failed, error>>

\* faulty variant: the error of connect is logged and the run goes on
RunConnectFails_GoesOn ==
    /\ pc = "connect"
    /\ client' = ClientFor(inputs.protocol)
    /\ calls' = Append(calls, Call("connect", "", FALSE))
    /\ pc' = "retrieve"
    /\ Await
    /\ UNCHANGED <<cmpVars, rtVars, tpVars, histVars, inputs, localTree, remoteTree, stateFile,
                   before, localState, remoteState, comparison, idx, filesUploaded,
                   filesDeleted, outputs, failed, error>>

RunConnectFails ==
    /\ pc = "connect"
    /\ client' = ClientFor(inputs.protocol)
    /\ calls' = Append(calls, Call("connect", "", FALSE))
    /\ Catch("Failed to connect")
    /\ Await
    /\ UNCHANGED <<cmpVars, rtVars, tpVars, histVars, inputs, localTree, remoteTree, stateFile, before,
                   localState, remoteState, comparison, idx, filesUploaded,
                   filesDeleted, error>>

\* faulty variant: a forced run still reads the manifest on the remote
RunSkipRemoteState_ReadsManifest ==
    /\ pc = "retrieve"
    /\ inputs.forceFullSync
    /\ remoteState' = IF stateFile # Absent /\ ~JsonParseThrows(stateFile)
                          /\ HasFiles(JsonParse(stateFile))
                      THEN JsonParse(stateFile)
                      ELSE Null
    /\ pc' = "compare"
    /\ Await
    /\ UNCHANGED <<cmpVars, rtVars, tpVars, histVars, client, inputs, localTree, remoteTree, stateFile, before,
                   localState, comparison, idx, filesUploaded, filesDeleted,
                   outputs, failed, error, calls>>

\* forceFullSync: the remote state stays null and nothing is asked of the client
RunSkipRemoteState ==
    /\ pc = "retrieve"
    /\ inputs.forceFullSync
    /\ remoteState' = Null
    /\ pc' = "compare"
    /\ Await
    /\ UNCHANGED <<cmpVars, rtVars, tpVars, histVars, client, inputs, localTree, remoteTree, stateFile, before,
                   localState, comparison, idx, filesUploaded, filesDeleted,
                   outputs, failed, error, calls>>

\* downloadRemoteState, then Object.keys(remoteState.files) of a state found,
\* which throws a TypeError when the state has no files
RunDownloadRemoteState ==
    /\ pc = "retrieve"
    /\ ~inputs.forceFullSync
    /\ \E got \in DownloadOutcomes(stateFile) :
        /\ calls' = calls \o got.calls
        /\ remoteState' = got.state
        /\ IF got.threw
           THEN Throw("Could not download remote state")
           ELSE IF Truthy(got.state) /\ ~HasFiles(got.state)
           THEN Throw("Cannot convert undefined or null to object")
           ELSE pc' = "compare" /\ error' = error
    /\ Await
    /\ UNCHANGED <<cmpVars, rtVars, tpVars, histVars, client, inputs, localTree, remoteTree, stateFile, before,
                   localState, comparison, idx, filesUploaded, filesDeleted,
                   outputs, failed>>

RunCompareStates ==
    /\ pc = "compare"
    /\ comparison' = compareStates(localState, remoteState)
    /\ idx' = 1
    /\ pc' = PhaseAfterCompare(comparison')
    /\ Await
    /\ UNCHANGED <<cmpVars, rtVars, tpVars, histVars, client, inputs, localTree, remoteTree, stateFile, before,
                   localState, remoteState, filesUploaded, filesDeleted,
                   outputs, failed, error, calls>>

\* the loop index moves on; past the last entry the loop is left
NextUpload ==
    /\ idx' = IF idx < Len(comparison.filesToUpload) THEN idx + 1 ELSE 1
    /\ pc' = IF idx < Len(comparison.filesToUpload)
             THEN "upload" ELSE PhaseAfterUploads(comparison)

NextDelete ==
    /\ idx' = IF idx < Len(comparison.filesToDelete) THEN idx + 1 ELSE 1
    /\ pc' = IF idx < Len(comparison.filesToDelete) THEN "delete" ELSE "publish"

\* one iteration of the upload loop: dry run logs, else client.uploadFile
\* faulty variant: a dry run counts the uploads it only logs
RunUpload_CountsDryRun ==
    /\ pc = "upload"
    /\ LET fileInfo == UploadEntry(comparison, idx)
       IN IF inputs.dryRun
          THEN /\ UNCHANGED <<remoteTree, calls>>
               /\ filesUploaded' = filesUploaded + 1
          ELSE /\ remoteTree' = [remoteTree EXCEPT
                        ![fileInfo.remotePath] = localTree[fileInfo.remotePath]]
               /\ calls' = Append(calls, Call("uploadFile", fileInfo.remotePath, TRUE))
               /\ filesUploaded' = filesUploaded + 1
    /\ NextUpload
    /\ Await
    /\ UNCHANGED <<cmpVars, rtVars, tpVars, histVars, client, inputs, localTree, stateFile, before, localState,
                   remoteState, comparison, filesDeleted, outputs, failed, error>>

RunUpload ==
    /\ pc = "upload"
    /\ LET fileInfo == UploadEntry(comparison, idx)
       IN IF inputs.dryRun
          THEN UNCHANGED <<remoteTree, calls, filesUploaded>>
          ELSE /\ remoteTree' = [remoteTree EXCEPT
                        ![fileInfo.remotePath] = localTree[fileInfo.remotePath]]
               /\ calls' = Append(calls, Call("uploadFile", fileInfo.remotePath, TRUE))
               /\ filesUploaded' = filesUploaded + 1
    /\ NextUpload
    /\ Await
    /\ UNCHANGED <<cmpVars, rtVars, tpVars, histVars, client, inputs, localTree, stateFile, before, localState,
                   remoteState, comparison, filesDeleted, outputs, failed, error>>

\* faulty variant: a failed upload is logged and the loop goes on
RunUploadFails_Continue ==
    /\ pc = "upload"
    /\ ~inputs.dryRun
    /\ calls' = Append(calls,
            Call("uploadFile", UploadEntry(comparison, idx).remotePath, FALSE))
    /\ NextUpload
    /\ Await
    /\ UNCHANGED <<cmpVars, rtVars, tpVars, histVars, client, inputs, localTree, remoteTree, stateFile, before,
                   localState, remoteState, comparison, filesUploaded,
                   filesDeleted, outputs, failed, error>>

\* client.uploadFile throws; the remote file is untouched or partly written
RunUploadFails ==
    /\ pc = "upload"
    /\ ~inputs.dryRun
    /\ LET fileInfo == UploadEntry(comparison, idx)
       IN /\ calls' = Append(calls, Call("uploadFile", fileInfo.remotePath, FALSE))
          /\ \/ remoteTree' = remoteTree
             \/ remoteTree' = [remoteTree EXCEPT ![fileInfo.remotePath] = "partial"]
    /\ Throw("Failed to upload file")
    /\ Await
    /\ UNCHANGED <<cmpVars, rtVars, tpVars, histVars, client, inputs, localTree, stateFile, before, localState,
                   remoteState, comparison, idx, filesUploaded, filesDeleted,
                   outputs, failed>>

\* faulty variant: the deletion loop does not look at dryRun
RunDelete_IgnoresDryRun ==
    /\ pc = "delete"
    /\ LET remoteFile == DeleteEntry(comparison, idx)
       IN /\ remoteTree' = [remoteTree EXCEPT ![remoteFile] = NoFile]
          /\ calls' = Append(calls, Call("deleteFile", remoteFile, TRUE))
          /\ filesDeleted' = filesDeleted + 1
    /\ NextDelete
    /\ Await
    /\ UNCHANGED <<cmpVars, rtVars, tpVars, histVars, client, inputs, localTree, stateFile, before, localState,
                   remoteState, comparison, filesUploaded, outputs, failed, error>>

\* one iteration of the deletion loop: dry run logs, else client.deleteFile
RunDelete ==
    /\ pc = "delete"
    /\ LET remoteFile == DeleteEntry(comparison, idx)
       IN IF inputs.dryRun
          THEN UNCHANGED <<remoteTree, calls, filesDeleted>>
          ELSE /\ remoteTree' = [remoteTree EXCEPT ![remoteFile] = NoFile]
               /\ calls' = Append(calls, Call("deleteFile", remoteFile, TRUE))
               /\ filesDeleted' = filesDeleted + 1
    /\ NextDelete
    /\ Await
    /\ UNCHANGED <<cmpVars, rtVars, tpVars, histVars, client, inputs, localTree, stateFile, before, localState,
                   remoteState, comparison, filesUploaded, outputs, failed, error>>

\* faulty variant: a deletion that failed is tried once more
RunDeleteFails_Retry ==
    /\ pc = "delete"
    /\ ~inputs.dryRun
    /\ calls' = Append(calls, Call("deleteFile", DeleteEntry(comparison, idx), FALSE))
    /\ IF \E j \in 1..Len(calls) :
            calls[j] = Call("deleteFile", DeleteEntry(comparison, idx), FALSE)
       THEN Throw("Failed to delete file")
       ELSE UNCHANGED <<pc, error>>
    /\ Await
    /\ UNCHANGED <<cmpVars, rtVars, tpVars, histVars, client, inputs, localTree, remoteTree,
                   stateFile, before, localState, remoteState, comparison, idx,
                   filesUploaded, filesDeleted, outputs, failed>>

\* client.deleteFile throws (the file is missing, or the transport fails)
RunDeleteFails ==
    /\ pc = "delete"
    /\ ~inputs.dryRun
    /\ calls' = Append(calls, Call("deleteFile", DeleteEntry(comparison, idx), FALSE))
    /\ Throw("Failed to delete file")
    /\ Await
    /\ UNCHANGED <<cmpVars, rtVars, tpVars, histVars, client, inputs, localTree, remoteTree, stateFile, before,
                   localState, remoteState, comparison, idx, filesUploaded,
                   filesDeleted, outputs, failed>>

\* faulty variant: the manifest retrieved is published again
RunPublish_PublishesRemoteState ==
    /\ pc = "publish"
    /\ IF inputs.dryRun
       THEN UNCHANGED <<stateFile, calls>>
       ELSE /\ stateFile' = JsonStringify(remoteState)
            /\ calls' = Append(calls, Call("uploadState", StateFileName, TRUE))
    /\ outputs' = [outputs EXCEPT !["files-uploaded"] = NumberToString(filesUploaded),
                                  !["files-deleted"] = NumberToString(filesDeleted),
                                  !["sync-status"] = "success"]
    /\ pc' = "finally"
    /\ Await
    /\ UNCHANGED <<cmpVars, rtVars, tpVars, histVars, client, inputs, localTree, remoteTree, before, localState,
                   remoteState, comparison, idx, filesUploaded, filesDeleted,
                   failed, error>>

\* uploadState unless dry run, then the three outputs
RunPublish ==
    /\ pc = "publish"
    /\ IF inputs.dryRun
       THEN UNCHANGED <<stateFile, calls>>
       ELSE /\ stateFile' = JsonStringify(localState)
            /\ calls' = Append(calls, Call("uploadState", StateFileName, TRUE))
    /\ outputs' = [outputs EXCEPT !["files-uploaded"] = NumberToString(filesUploaded),
                                  !["files-deleted"] = NumberToString(filesDeleted),
                                  !["sync-status"] = "success"]
    /\ pc' = "finally"
    /\ Await
    /\ UNCHANGED <<cmpVars, rtVars, tpVars, histVars, client, inputs, localTree, remoteTree, before, localState,
                   remoteState, comparison, idx, filesUploaded, filesDeleted,
                   failed, error>>

\* the upload of the state file throws
RunPublishFails ==
    /\ pc = "publish"
    /\ ~inputs.dryRun
    /\ calls' = Append(calls, Call("uploadState", StateFileName, FALSE))
    /\ Throw("Failed to upload state file")
    /\ Await
    /\ UNCHANGED <<cmpVars, rtVars, tpVars, histVars, client, inputs, localTree, remoteTree, stateFile, before,
                   localState, remoteState, comparison, idx, filesUploaded,
                   filesDeleted, outputs, failed>>

\* faulty variant: the state file is uploaded in finally, whatever happened before
RunDisconnect_PublishInFinally ==
    /\ pc = "finally"
    /\ stateFile' = IF inputs.dryRun THEN stateFile ELSE JsonStringify(localState)
    /\ calls' = Append(calls, Call("disconnect", "", TRUE))
    /\ IF error # "none"
       THEN Catch(error)
       ELSE pc' = "done" /\ UNCHANGED <<failed, outputs>>
    /\ Await
    /\ UNCHANGED <<cmpVars, rtVars, tpVars, histVars, client, inputs, localTree, remoteTree, before, localState,
                   remoteState, comparison, idx, filesUploaded, filesDeleted,
                   error>>

\* faulty variant: an error of closing the connection is thrown on
RunDisconnect_Propagates ==
    /\ pc = "finally"
    /\ \E closed \in BOOLEAN :
        /\ calls' = Append(calls, Call("disconnect", "", closed))
        /\ IF ~closed
           THEN Catch("Failed to disconnect")
           ELSE IF error # "none"
           THEN Catch(error)
           ELSE pc' = "done" /\ UNCHANGED <<failed, outputs>>
    /\ Await
    /\ UNCHANGED <<cmpVars, rtVars, tpVars, histVars, client, inputs, localTree, remoteTree, stateFile, before,
                   localState, remoteState, comparison, idx, filesUploaded,
                   filesDeleted, error>>

\* finally: client.disconnect(), which swallows the error when closing the
\* connection throws (ok FALSE in the call log); then the outer catch if the
\* inner try threw
RunDisconnect ==
    /\ pc = "finally"
    /\ \E closed \in BOOLEAN :
            calls' = Append(calls, Call("disconnect", "", closed))
    /\ IF error # "none"
       THEN Catch(error)
       ELSE pc' = "done" /\ UNCHANGED <<failed, outputs>>
    /\ Await
    /\ UNCHANGED <<cmpVars, rtVars, tpVars, histVars, client, inputs, localTree, remoteTree, stateFile, before,
                   localState, remoteState, comparison, idx, filesUploaded,
                   filesDeleted, error>>

----------------------------------------------------------------------------
(* One run against a remote root left by earlier deployments *)

\* the trees of at most MaxFiles files with contents in C
Trees(C) ==
    {t \in [Paths -> C \cup {NoFile}] :
        Cardinality({p \in Paths : t[p] # NoFile}) <= MaxFiles}

\* state files: none, text that is no JSON, {}, or the manifest an earlier run
\* published for the tree it saw
StateFiles ==
    {Absent, GarbageText, EmptyObjectText}
    \cup {JsonStringify(buildLocalState(ScanFiles(t), t, "T0")) : t \in Trees({"c1"})}
    \cup {JsonStringify(OtherVersion(buildLocalState(ScanFiles(t), t, "T0"))) :
            t \in Trees({"c1"})}

EmptyTree == [p \in Paths |-> NoFile]

\* the flags and the credentials of a run
Flags == [dryRun : BOOLEAN, deleteOrphaned : BOOLEAN, forceFullSync : BOOLEAN]

Credentials == [protocol : {"ftp", "sftp"}, password : BOOLEAN, privateKey : BOOLEAN]

WithCredentials(f, c) ==
    [protocol |-> c.protocol, password |-> c.password, privateKey |-> c.privateKey,
     dryRun |-> f.dryRun, deleteOrphaned |-> f.deleteOrphaned,
     forceFullSync |-> f.forceFullSync]

FtpPassword == [protocol |-> "ftp", password |-> TRUE, privateKey |-> FALSE]

\* no run before the first one
NoPrev == [ok |-> FALSE, dryRun |-> FALSE, localTree |-> EmptyTree, localState |-> Null,
           filesDeleted |-> 0]

\* the state of run() when it is entered
RunEntered ==
    /\ before = [tree |-> remoteTree, stateFile |-> stateFile]
    /\ pc = "start"
    /\ client = "none"
    /\ localState = Null
    /\ remoteState = Null
    /\ comparison = NewResult
    /\ idx = 1
    /\ filesUploaded = 0
    /\ filesDeleted = 0
    /\ outputs = [n \in OutputNames |-> "unset"]
    /\ failed = "none"
    /\ error = "none"
    /\ calls = <<>>
    /\ inFlight = <<>>

RtIdle ==
    /\ rtClient = [hasExists |-> TRUE, file |-> Absent, written |-> FALSE]
    /\ rtManifest = Manifest(<<>>, "T0")
    /\ rtLast = <<>>
    /\ rtCount = 0

\* config.timeout || 10000, in milliseconds
DefaultTimeout == 10000

\* no client is under test
TpIdle ==
    /\ ftpConn = [pc |-> "idle", timeout |-> DefaultTimeout, access |-> "none",
                  timer |-> "none", closed |-> 0, error |-> <<>>]
    /\ ftpSrv = [cwd |-> <<>>, dirs |-> {<<>>}, locked |-> {}, readonly |-> {},
                 existsReply |-> [code |-> 550, message |-> "File exists"],
                 files |-> {}, full |-> FALSE]
    /\ ftpLast = <<>>
    /\ sftpSrv = [dirStat |-> "directory", mkdir |-> "ok", fileStat |-> "file",
                  put |-> <<"ok", "ok">>, delete |-> "ok"]
    /\ sftpLast = <<>>

CompareIdle ==
    /\ cmpLocal = Manifest(<<>>, "T0")
    /\ cmpRemote = Null
    /\ cmpLog = <<>>

\* every remote is tried with FTP and a password; the other credentials are
\* tried against a remote root that is still empty
RunInit ==
    /\ runNo = 1
    /\ prev = NoPrev
    /\ \E f \in Flags, c \in Credentials : inputs = WithCredentials(f, c)
    /\ localTree \in Trees({"c1", "c2"})
    /\ remoteTree \in [Paths -> {"c1", NoFile}]
    /\ stateFile \in StateFiles
    /\ \/ \E f \in Flags : inputs = WithCredentials(f, FtpPassword)
       \/ remoteTree = EmptyTree /\ stateFile = Absent
    /\ RunEntered

RunIdle ==
    /\ runNo = 1
    /\ prev = NoPrev
    /\ client = "none"
    /\ inputs = WithCredentials(
            [dryRun |-> FALSE, deleteOrphaned |-> FALSE, forceFullSync |-> FALSE],
            FtpPassword)
    /\ localTree = EmptyTree
    /\ remoteTree = EmptyTree
    /\ stateFile = Absent
    /\ before = [tree |-> remoteTree, stateFile |-> stateFile]
    /\ pc = "idle"
    /\ localState = Null
    /\ remoteState = Null
    /\ comparison = NewResult
    /\ idx = 1
    /\ filesUploaded = 0
    /\ filesDeleted = 0
    /\ outputs = [n \in OutputNames |-> "unset"]
    /\ failed = "none"
    /\ error = "none"
    /\ calls = <<>>
    /\ inFlight = <<>>

Init == CompareIdle /\ RtIdle /\ TpIdle /\ RunInit

Next ==
    \/ RunCallClient
    \/ RunConfigError
    \/ RunBuildLocalState
    \/ RunBuildLocalStateFails
    \/ RunConnect
    \/ RunConnectFails
    \/ RunSkipRemoteState
    \/ RunDownloadRemoteState
    \/ RunCompareStates
    \/ RunUpload
    \/ RunUploadFails
    \/ RunDelete
    \/ RunDeleteFails
    \/ RunPublish
    \/ RunPublishFails
    \/ RunDisconnect

Spec == Init /\ [][Next]_vars

----------------------------------------------------------------------------
(* A StateManager whose compareStates is called with a local manifest and  *)
(* either the remote manifest or null (no remote state)                    *)

\* the keys of files follow the order in which the scanner lists the paths,
\* as in every state buildLocalState returns
InScanOrder(files) ==
    \A i, j \in 1..Len(files) :
        i < j => \E m, n \in 1..Len(PathOrder) :
                    m < n /\ PathOrder[m] = files[i].key /\ PathOrder[n] = files[j].key

\* the local state is one buildLocalState returns; the remote state is whatever
\* the state file holds, its keys in any order
CompareInit ==
    /\ cmpLocal \in {m \in Manifests : InScanOrder(m.files)}
    /\ cmpRemote \in Manifests \cup {Null}
    /\ cmpLog = <<>>
    /\ RtIdle
    /\ TpIdle
    /\ RunIdle

\* StateManager.generateSyncSummary (the summary text is built from the same
\* four counts)
generateSyncSummary(comparison_, forceFullSync) ==
    LET stats == comparison_.stats
    IN [total |-> stats.new + stats.modified + stats.unchanged + stats.deleted,
        toUpload |-> stats.new + stats.modified,
        toDelete |-> stats.deleted,
        unchanged |-> stats.unchanged,
        forceFullSync |-> forceFullSync]

\* compareStates, then generateSyncSummary of its result, as run() calls them
CallCompareStates(remote) ==
    /\ Len(cmpLog) < MaxCalls
    /\ LET out == compareStates(cmpLocal, remote)
       IN cmpLog' = Append(cmpLog,
            [local |-> cmpLocal, remote |-> remote, out |-> out,
             summary |-> generateSyncSummary(out, remote = Null)])
    /\ UNCHANGED <<cmpLocal, cmpRemote, rtVars, tpVars, runVars>>

CompareWithRemote == CallCompareStates(cmpRemote)

CompareWithoutRemote == CallCompareStates(Null)

CompareNext == CompareWithRemote \/ CompareWithoutRemote

SpecCompare == CompareInit /\ [][CompareNext]_vars

-----------------------------------------------------------------------------
(* A StateManager used on a client: uploadState writes the state file of    *)
(* the client, downloadRemoteState reads it                                 *)

\* the text of a state file whose upload broke off
Truncated(text) == [text EXCEPT !.json = SubSeq(text.json, 1, Len(text.json) - 1)]

StateFileInit ==
    /\ rtClient \in [hasExists : BOOLEAN,
                     file : {Absent, GarbageText, EmptyObjectText},
                     written : {FALSE}]
    /\ rtManifest \in Manifests \cup {OtherVersion(m) : m \in Manifests}
    /\ rtLast = <<>>
    /\ rtCount = 0
    /\ CompareIdle
    /\ TpIdle
    /\ RunIdle

CallUploadState ==
    /\ rtCount < MaxCalls
    /\ rtCount' = rtCount + 1
    /\ rtClient' = [rtClient EXCEPT !.file = JsonStringify(rtManifest),
                                    !.written = TRUE]
    /\ rtLast' = <<>>
    /\ UNCHANGED <<rtManifest, cmpVars, tpVars, runVars>>

\* client.uploadFile throws: 'Failed to upload state file'; the file is left
\* as it was or partly written
CallUploadStateFails ==
    /\ rtCount < MaxCalls
    /\ rtCount' = rtCount + 1
    /\ \E left \in {rtClient.file, Truncated(JsonStringify(rtManifest))} :
            rtClient' = [rtClient EXCEPT !.file = left, !.written = FALSE]
    /\ rtLast' = <<>>
    /\ UNCHANGED <<rtManifest, cmpVars, tpVars, runVars>>

CallDownloadRemoteState ==
    /\ rtCount < MaxCalls
    /\ rtCount' = rtCount + 1
    /\ \E got \in DownloadRemoteStateOutcomes(rtClient.file, rtClient.hasExists) :
            rtLast' = <<got>>
    /\ UNCHANGED <<rtClient, rtManifest, cmpVars, tpVars, runVars>>

StateFileNext == CallUploadState \/ CallUploadStateFails \/ CallDownloadRemoteState

SpecStateFile == StateFileInit /\ [][StateFileNext]_vars

----------------------------------------------------------------------------
(* Properties of compareStates, stated over the calls made (cmpLog) *)

\* the entries of a manifest, none when the manifest is absent
EntriesOf(state) == IF state.kind = "object" THEN state.files ELSE <<>>

UploadIndexes(plan, p) ==
    {i \in 1..Len(plan.filesToUpload) : plan.filesToUpload[i].remotePath = p}

DeleteIndexes(plan, p) ==
    {i \in 1..Len(plan.filesToDelete) : plan.filesToDelete[i] = p}

\* what the diff says of local path p: "new", "modified" or "unchanged"
Classify(lf, rf, p) ==
    IF ~HasOwn(rf, p) THEN "new"
    ELSE IF OwnValue(rf, p).hash # OwnValue(lf, p).hash THEN "modified"
    ELSE "unchanged"

UploadsExactlyChanged(c) ==
    LET lf == c.local.files
        rf == EntriesOf(c.remote)
        up == c.out.filesToUpload
    IN /\ \A i \in 1..Len(up) : HasOwn(lf, up[i].remotePath)
       /\ \A p \in KeySet(lf) :
            IF Classify(lf, rf, p) = "unchanged"
            THEN UploadIndexes(c.out, p) = {}
            ELSE /\ Cardinality(UploadIndexes(c.out, p)) = 1
                 /\ \A i \in UploadIndexes(c.out, p) :
                        /\ up[i].action = Classify(lf, rf, p)
                        /\ up[i].remotePath = p
                        /\ up[i].localPath = OwnValue(lf, p).localPath

\* C1: for every local manifest L and remote manifest R (or none), filesToUpload
\* holds exactly one entry for each local path that is absent from R (tagged
\* 'new') or has a different hash in R (tagged 'modified'), carrying the path and
\* L's localPath, and no entry for a path whose hash is equal in L and R.
C1_UploadsExactlyChanged ==
    \A k \in 1..Len(cmpLog) : UploadsExactlyChanged(cmpLog[k])

DeletesExactlyOrphans(c) ==
    LET lf == c.local.files
        rf == EntriesOf(c.remote)
    IN /\ \A p \in Paths :
            Cardinality(DeleteIndexes(c.out, p)) =
                (IF HasOwn(rf, p) /\ ~HasOwn(lf, p) THEN 1 ELSE 0)
       /\ (lf = <<>>) =>
            /\ c.out.filesToUpload = <<>>
            /\ Len(c.out.filesToDelete) = Len(rf)

\* C2: filesToDelete holds exactly the paths that are keys of R.files and not of
\* L.files, each once; with an empty L and N remote entries filesToUpload is empty
\* and filesToDelete is those N paths.
C2_DeletesExactlyOrphans ==
    \A k \in 1..Len(cmpLog) : DeletesExactlyOrphans(cmpLog[k])

AllNewWithoutRemote(c) ==
    (c.remote = Null) =>
        /\ Len(c.out.filesToUpload) = Len(c.local.files)
        /\ \A p \in KeySet(c.local.files) :
                \E i \in UploadIndexes(c.out, p) :
                    c.out.filesToUpload[i].action = "new"
        /\ c.out.filesToDelete = <<>>
        /\ c.out.stats =
                [unchanged |-> 0, modified |-> 0, new |-> Len(c.local.files),
                 deleted |-> 0]

\* C3: compareStates(L, null) tags every path of L 'new', deletes nothing, and
\* reports stats.new = |L.files| with unchanged = modified = deleted = 0.
C3_AllNewWithoutRemote ==
    \A k \in 1..Len(cmpLog) : AllNewWithoutRemote(cmpLog[k])

SamePathsAndHashes(lf, rf) ==
    /\ KeySet(lf) = KeySet(rf)
    /\ \A p \in KeySet(lf) : OwnValue(lf, p).hash = OwnValue(rf, p).hash

\* C4: diffing against a remote manifest with the same path set and the same
\* hashes yields no upload, no deletion and stats.unchanged = |local.files|.
C4_SameContentIsNoOp ==
    \A k \in 1..Len(cmpLog) :
        LET c == cmpLog[k]
        IN SamePathsAndHashes(c.local.files, EntriesOf(c.remote)) =>
              /\ c.out.filesToUpload = <<>>
              /\ c.out.filesToDelete = <<>>
              /\ c.out.stats.unchanged = Len(c.local.files)

\* two paths, the same in both manifests up to order, size and mtime
C4_Witness ==
    \E k \in 1..Len(cmpLog) :
        LET c == cmpLog[k]
        IN /\ c.remote # Null
           /\ Len(c.local.files) = 2
           /\ SamePathsAndHashes(c.local.files, c.remote.files)
           /\ c.local.files # c.remote.files
           /\ c.out.stats.unchanged = 2

\* the manifest with every record's size and mtime replaced by fixed values
WithoutSizeAndMtime(state) ==
    IF state.kind # "object" THEN state
    ELSE [state EXCEPT !.files =
            [i \in 1..Len(state.files) |->
                [state.files[i] EXCEPT !.value.size = 0, !.value.mtime = "t0"]]]

EqualHashPaths(c) ==
    {p \in KeySet(c.local.files) \cap KeySet(EntriesOf(c.remote)) :
        OwnValue(c.local.files, p).hash = OwnValue(c.remote.files, p).hash}

\* C5: a path present in both manifests with equal hash is counted unchanged and
\* not uploaded whatever the sizes and mtimes; size and mtime never influence the
\* plan (the plan is that of the manifests with size and mtime blanked).
C5_FingerprintAuthority ==
    \A k \in 1..Len(cmpLog) :
        LET c == cmpLog[k]
        IN /\ \A p \in EqualHashPaths(c) : UploadIndexes(c.out, p) = {}
           /\ c.out.stats.unchanged = Cardinality(EqualHashPaths(c))
           /\ c.out = compareStates(WithoutSizeAndMtime(c.local),
                                    WithoutSizeAndMtime(c.remote))

\* equal hash, different size and different mtime
C5_Witness ==
    \E k \in 1..Len(cmpLog) :
        LET c == cmpLog[k]
        IN \E p \in EqualHashPaths(c) :
              /\ OwnValue(c.local.files, p).size # OwnValue(c.remote.files, p).size
              /\ OwnValue(c.local.files, p).mtime # OwnValue(c.remote.files, p).mtime
              /\ c.out.stats.unchanged = 1
              /\ Len(c.out.filesToUpload) = 1

----------------------------------------------------------------------------
(* Properties of run(), stated over the client calls made (calls) *)

IsWrite(c) == c.op \in {"uploadFile", "deleteFile", "uploadState"}

IsTransfer(c) == c.op \in {"uploadFile", "deleteFile"}

WriteCalls == SelectSeq(calls, IsWrite)

UploadCallsOf(plan) ==
    [k \in 1..Len(plan.filesToUpload) |->
        Call("uploadFile", plan.filesToUpload[k].remotePath, TRUE)]

DeleteCallsOf(plan) ==
    [k \in 1..Len(plan.filesToDelete) |->
        Call("deleteFile", plan.filesToDelete[k], TRUE)]

\* C7: a run that is no dry run and meets no failure calls uploadFile for every
\* entry of the plan in filesToUpload order, then deleteFile for every orphan
\* (only with deleteOrphaned), then uploadState once, as its last write; no
\* upload or deletion ever follows the upload of the state file.
C7_WriteOrder ==
    /\ (pc = "done" /\ ~inputs.dryRun /\ failed = "none") =>
            WriteCalls =
                UploadCallsOf(comparison)
                \o (IF inputs.deleteOrphaned THEN DeleteCallsOf(comparison) ELSE <<>>)
                \o <<Call("uploadState", StateFileName, TRUE)>>
    /\ \A j, k \in 1..Len(calls) :
            (calls[j].op = "uploadState" /\ IsTransfer(calls[k])) => k < j

\* a completed run of two uploads and a deletion
C7_Witness ==
    /\ pc = "done"
    /\ ~inputs.dryRun
    /\ failed = "none"
    /\ inputs.deleteOrphaned
    /\ Len(comparison.filesToUpload) = 2
    /\ Len(comparison.filesToDelete) >= 1
    /\ Len(WriteCalls) >= 4

\* C8: after an uploadFile, deleteFile or uploadState call that failed the run
\* makes no further such call, and it ends with setFailed called and
\* sync-status 'failed'.
C8_AbortOnFailure ==
    /\ \A j \in 1..Len(calls) :
            (IsWrite(calls[j]) /\ ~calls[j].ok) =>
                \A k \in (j + 1)..Len(calls) : ~IsWrite(calls[k])
    /\ (pc = "done" /\ \E j \in 1..Len(calls) : IsWrite(calls[j]) /\ ~calls[j].ok) =>
            /\ failed # "none"
            /\ outputs["sync-status"] = "failed"

\* the first of two uploads failed, with a deletion planned after them
C8_Witness ==
    /\ pc = "done"
    /\ inputs.deleteOrphaned
    /\ Len(comparison.filesToUpload) = 2
    /\ Len(comparison.filesToDelete) >= 1
    /\ WriteCalls = <<Call("uploadFile", comparison.filesToUpload[1].remotePath, FALSE)>>
    /\ outputs["sync-status"] = "failed"

AbortedByTransfer ==
    /\ pc = "done"
    /\ \E j \in 1..Len(calls) : IsTransfer(calls[j]) /\ ~calls[j].ok

\* C9: after a run aborted by a failing upload or deletion the state file is the
\* one of before the run, and what the run uploaded or deleted before the
\* failure stays: the uploaded files hold the local content, the deleted files
\* are gone.
C9_AbortKeepsOldManifest ==
    AbortedByTransfer =>
        /\ stateFile = before.stateFile
        /\ \A j \in 1..Len(calls) :
                (calls[j].ok /\ calls[j].op = "uploadFile") =>
                    remoteTree[calls[j].path] = localTree[calls[j].path]
        /\ \A j \in 1..Len(calls) :
                (calls[j].ok /\ calls[j].op = "deleteFile") =>
                    remoteTree[calls[j].path] = NoFile

\* an upload went through, a deletion went through, the next deletion failed,
\* and a manifest was in place before the run
C9_Witness ==
    /\ AbortedByTransfer
    /\ before.stateFile \notin {Absent, GarbageText, EmptyObjectText}
    /\ \E j \in 1..Len(calls) : calls[j].ok /\ calls[j].op = "uploadFile"
    /\ \E j \in 1..Len(calls) : calls[j].ok /\ calls[j].op = "deleteFile"
    /\ \E j \in 1..Len(calls) : ~calls[j].ok /\ calls[j].op = "deleteFile"
    /\ remoteTree # before.tree

\* C10: a dry run calls none of uploadFile, deleteFile and uploadState, and the
\* remote files and the state file stay those of before the run, whatever the
\* plan and deleteOrphaned are.
C10_DryRunWritesNothing ==
    inputs.dryRun =>
        /\ \A j \in 1..Len(calls) : ~IsWrite(calls[j])
        /\ remoteTree = before.tree
        /\ stateFile = before.stateFile

\* a completed dry run with deleteOrphaned whose plan uploads and deletes
C10_Witness ==
    /\ pc = "done"
    /\ inputs.dryRun
    /\ inputs.deleteOrphaned
    /\ Len(comparison.filesToUpload) >= 1
    /\ Len(comparison.filesToDelete) >= 1
    /\ outputs["sync-status"] = "success"


-----------------------------------------------------------------------------
(* Runs one after the other against the same remote root, the local tree   *)
(* left as it is                                                           *)

MaxRuns == 2

\* the remote root after an earlier deployment of the tree t
DeployedTree == [p \in Paths |-> IF p = "toString" THEN NoFile ELSE "c1"]

SftpNoCredentials == [protocol |-> "sftp", password |-> FALSE, privateKey |-> FALSE]

RunsInit ==
    /\ runNo = 1
    /\ prev = NoPrev
    /\ \E f \in Flags, c \in {FtpPassword, SftpNoCredentials} :
            inputs = WithCredentials(f, c)
    /\ localTree \in Trees({"c1", "c2"})
    /\ \/ remoteTree = EmptyTree /\ stateFile = Absent
       \/ /\ inputs.protocol = "ftp"
          /\ remoteTree = DeployedTree
          /\ stateFile = JsonStringify(
                buildLocalState(ScanFiles(DeployedTree), DeployedTree, "T0"))
    /\ RunEntered

\* the workflow calls run() again: the inputs of the new run, its counters and
\* outputs fresh, the remote root as the run before left it
StartNextRun ==
    /\ pc = "done"
    /\ runNo < MaxRuns
    /\ runNo' = runNo + 1
    /\ prev' = [ok |-> failed = "none", dryRun |-> inputs.dryRun,
                localTree |-> localTree, localState |-> localState,
                filesDeleted |-> filesDeleted]
    /\ \E f \in Flags :
            inputs' = WithCredentials(f, inputs)
    /\ before' = [tree |-> remoteTree, stateFile |-> stateFile]
    /\ pc' = "start"
    /\ client' = "none"
    /\ localState' = Null
    /\ remoteState' = Null
    /\ comparison' = NewResult
    /\ idx' = 1
    /\ filesUploaded' = 0
    /\ filesDeleted' = 0
    /\ outputs' = [n \in OutputNames |-> "unset"]
    /\ failed' = "none"
    /\ error' = "none"
    /\ calls' = <<>>
    /\ inFlight' = <<>>
    /\ UNCHANGED <<cmpVars, rtVars, tpVars, localTree, remoteTree, stateFile>>

RunsNext == Next \/ StartNextRun

InitRuns == CompareIdle /\ RtIdle /\ TpIdle /\ RunsInit

SpecRuns == InitRuns /\ [][RunsNext]_vars

-----------------------------------------------------------------------------
(* Properties of the state file from one run to the next *)

\* the state file holds the manifest the run built at its start
PublishedIsLocalManifest ==
    /\ stateFile # Absent
    /\ ~JsonParseThrows(stateFile)
    /\ JsonParse(stateFile) = localState

\* this run follows a successful run that was no dry run, the tree unchanged
FollowsPublishingRun ==
    /\ runNo > 1
    /\ prev.ok
    /\ ~prev.dryRun
    /\ localTree = prev.localTree

\* the run has its plan
Planned == pc \in {"upload", "delete", "publish"} \/ (pc = "done" /\ failed = "none")

\* the run got the manifest of the run before
RetrievedPrevious ==
    /\ remoteState # Null
    /\ remoteState = prev.localState
    /\ Call("downloadFile", StateFileName, TRUE) \in {calls[j] : j \in 1..Len(calls)}

PlansNothing ==
    /\ comparison.stats.new = 0
    /\ comparison.stats.modified = 0
    /\ comparison.stats.deleted = 0
    /\ comparison.filesToUpload = <<>>
    /\ \A j \in 1..Len(calls) : calls[j].op # "uploadFile"

\* C11 as stated: after a successful run that is no dry run the state file equals
\* the local manifest of that run, and whatever the following run over the
\* unchanged tree is asked, it retrieves that manifest and plans 0 new,
\* 0 modified, 0 deleted and uploads nothing.
C11_NextRunPlansNothing_AsStated ==
    /\ (pc = "done" /\ failed = "none" /\ ~inputs.dryRun) => PublishedIsLocalManifest
    /\ (FollowsPublishingRun /\ Planned) => (RetrievedPrevious /\ PlansNothing)

\* the existence check and the download of the state file both succeeded
RetrievalSucceeded ==
    /\ Call("exists", StateFileName, TRUE) \in {calls[j] : j \in 1..Len(calls)}
    /\ Call("downloadFile", StateFileName, TRUE) \in {calls[j] : j \in 1..Len(calls)}

\* C11: after a successful run that is no dry run the state file equals the
\* local manifest built at the start of that run; a following run over the
\* unchanged tree that does not force a full sync, and whose existence check and
\* download of the state file succeed, retrieves that manifest, plans 0 new,
\* 0 modified, 0 deleted and uploads nothing.
C11_NextRunPlansNothing ==
    /\ (pc = "done" /\ failed = "none" /\ ~inputs.dryRun) => PublishedIsLocalManifest
    /\ (FollowsPublishingRun /\ Planned /\ ~inputs.forceFullSync /\ RetrievalSucceeded)
            => (RetrievedPrevious /\ PlansNothing)

C11_Witness ==
    /\ FollowsPublishingRun
    /\ pc = "done"
    /\ failed = "none"
    /\ ~inputs.forceFullSync
    /\ RetrievalSucceeded
    /\ Len(localState.files) = 2
    /\ "toString" \in KeySet(localState.files)
    /\ prev.localState.lastSync # localState.lastSync

-----------------------------------------------------------------------------
(* Properties of the retrieval of the state file *)

CallsMade == {calls[j] : j \in 1..Len(calls)}

\* the state file was found and downloaded by this run
Downloaded == Call("downloadFile", StateFileName, TRUE) \in CallsMade

\* text that is no JSON, or JSON that holds no files mapping
Corrupted(text) ==
    /\ text # Absent
    /\ (JsonParseThrows(text) \/ ~HasFiles(JsonParse(text)))

NoCallFailed == \A j \in 1..Len(calls) : calls[j].ok

\* the plan was made as for a remote root without state file
PlannedAsAbsent ==
    /\ remoteState = Null
    /\ pc \in {"upload", "delete", "publish"}
            => comparison = compareStates(localState, Null)

\* C12: a state file that exists but is corrupted (no JSON, or JSON without the
\* files mapping) never aborts the run: once it is downloaded the run goes on
\* as if there were none, and unless a client call fails it does not end
\* 'failed'.
C12_CorruptedManifestNeverAborts ==
    (Corrupted(before.stateFile) /\ Downloaded /\ NoCallFailed)
        => /\ error = "none"
           /\ failed = "none"
           /\ outputs["sync-status"] # "failed"
           /\ PlannedAsAbsent

\* downloadRemoteState met a failure: the existence check answered false (the
\* file is missing or the check threw), the download threw, or the text
\* downloaded is no JSON
RetrievalGaveUp ==
    \/ Call("exists", StateFileName, FALSE) \in CallsMade
    \/ Call("downloadFile", StateFileName, FALSE) \in CallsMade
    \/ Downloaded /\ JsonParseThrows(before.stateFile)

\* C13: downloadRemoteState never propagates an error: when the existence check
\* fails, the download fails or the text is no JSON it returns null, the run
\* goes on to compare against no remote state, and no error of the retrieval
\* ever reaches the run.
C13_DownloadNeverThrows ==
    /\ error # "Could not download remote state"
    /\ failed # "Could not download remote state"
    /\ RetrievalGaveUp =>
        /\ remoteState = Null
        /\ pc \in {"upload", "delete", "publish"}
                => comparison = compareStates(localState, Null)
        /\ (\A j \in 1..Len(calls) : IsWrite(calls[j]) => calls[j].ok)
                => error = "none"

C13_Witness ==
    /\ pc = "publish"
    /\ Downloaded
    /\ JsonParseThrows(before.stateFile)
    /\ remoteState = Null
    /\ comparison.stats.new > 0

\* the state file downloaded is a manifest of another version than '1.0.0'
OtherVersionRetrieved ==
    /\ Downloaded
    /\ ~Corrupted(before.stateFile)
    /\ JsonParse(before.stateFile).version # "1.0.0"

\* C14: a state file retrieved whose version is not '1.0.0' is treated as
\* absent: the plan is the one made without remote state, it holds no deletion
\* and counts no file unchanged (none of the entries is trusted).
C14_OtherVersionIsAbsent ==
    (OtherVersionRetrieved /\ pc \in {"compare", "upload", "delete", "publish"})
        => /\ PlannedAsAbsent
           /\ comparison.filesToDelete = <<>>
           /\ comparison.stats.deleted = 0
           /\ comparison.stats.unchanged = 0

\* C15: with forceFullSync the state file is neither looked for nor downloaded,
\* the remote state is absent, every local file is planned with action 'new',
\* and a run that is no dry run and ends well has uploaded every local file.
C15_ForceFullSync ==
    inputs.forceFullSync =>
        /\ \A j \in 1..Len(calls) : calls[j].op \notin {"exists", "downloadFile"}
        /\ remoteState = Null
        /\ pc \in {"upload", "delete", "publish"} =>
            /\ Len(comparison.filesToUpload) = Len(localState.files)
            /\ \A k \in 1..Len(comparison.filesToUpload) :
                /\ comparison.filesToUpload[k].action = "new"
                /\ comparison.filesToUpload[k].remotePath = localState.files[k].key
        /\ (pc = "done" /\ failed = "none" /\ ~inputs.dryRun) =>
            \A k \in 1..Len(localState.files) :
                Call("uploadFile", localState.files[k].key, TRUE) \in CallsMade

-----------------------------------------------------------------------------
(* Properties of the deletion of orphans and of the outputs *)

\* the files under the remote root, the state file apart
RemoteFilesIn(tree) == {p \in Paths : tree[p] # NoFile}

LocalFiles == {p \in Paths : localTree[p] # NoFile}

\* C16: deleteFile is called only with deleteOrphaned set and dryRun off, and
\* only for paths of filesToDelete; with deleteOrphaned off every file the
\* remote root held before the run is still there.
C16_DeleteOnlyByPolicy ==
    /\ \A j \in 1..Len(calls) :
        calls[j].op = "deleteFile" =>
            /\ inputs.deleteOrphaned
            /\ ~inputs.dryRun
            /\ \E k \in 1..Len(comparison.filesToDelete) :
                    comparison.filesToDelete[k] = calls[j].path
    /\ ~inputs.deleteOrphaned => RemoteFilesIn(before.tree) \subseteq RemoteFilesIn(remoteTree)

C16_Witness ==
    /\ pc = "done"
    /\ failed = "none"
    /\ inputs.deleteOrphaned
    /\ \E p \in RemoteFilesIn(before.tree) :
        /\ remoteTree[p] = NoFile
        /\ Call("deleteFile", p, TRUE) \in CallsMade

\* C17: with deleteOrphaned set, after a successful run that is no dry run no
\* file is left under the remote root that the local tree does not hold,
\* whatever the remote root and the state file were before.
C17_NoOrphanLeft ==
    (pc = "done" /\ failed = "none" /\ inputs.deleteOrphaned /\ ~inputs.dryRun)
        => RemoteFilesIn(remoteTree) \subseteq LocalFiles

\* C18: every run that has ended, well or not, has set the three outputs, with
\* sync-status 'success' when it completed and 'failed' otherwise.
C18_OutputsAlwaysSet ==
    pc = "done" =>
        /\ \A n \in OutputNames : outputs[n] # "unset"
        /\ outputs["sync-status"] = IF failed = "none" THEN "success" ELSE "failed"

CompletedUploads ==
    Cardinality({j \in 1..Len(calls) : calls[j].op = "uploadFile" /\ calls[j].ok})

\* C19: on a successful run files-uploaded is the number of uploadFile calls
\* that completed, |filesToUpload| without dryRun and 0 with it; files-deleted
\* is |filesToDelete| with deleteOrphaned and without dryRun and 0 otherwise;
\* the upload of the state file is not counted.
C19_OutputsCount ==
    (pc = "done" /\ failed = "none") =>
        /\ outputs["files-uploaded"] = NumberToString(CompletedUploads)
        /\ CompletedUploads =
                IF inputs.dryRun THEN 0 ELSE Len(comparison.filesToUpload)
        /\ outputs["files-deleted"] =
                NumberToString(IF inputs.deleteOrphaned /\ ~inputs.dryRun
                               THEN Len(comparison.filesToDelete) ELSE 0)
        /\ outputs["sync-status"] = "success"

C19_Witness ==
    /\ pc = "done"
    /\ failed = "none"
    /\ outputs["files-uploaded"] = "2"
    /\ outputs["files-deleted"] = "1"
    /\ Call("uploadState", StateFileName, TRUE) \in CallsMade

\* C20: with protocol 'sftp' and neither password nor private key the run ends
\* 'failed' before any I/O: no local state is built, no client is created and
\* no client call is made.
C20_ConfigErrorBeforeIO ==
    (inputs.protocol = "sftp" /\ ~inputs.password /\ ~inputs.privateKey) =>
        /\ pc \in {"start", "done"}
        /\ localState = Null
        /\ client = "none"
        /\ calls = <<>>
        /\ remoteTree = before.tree
        /\ pc = "done" =>
            /\ failed = "SFTP requires either a password or private key"
            /\ outputs["sync-status"] = "failed"

C20_Witness ==
    /\ pc = "done"
    /\ inputs.protocol = "sftp"
    /\ ~inputs.password
    /\ ~inputs.privateKey
    /\ LocalFiles # {}
    /\ outputs["sync-status"] = "failed"

-----------------------------------------------------------------------------
(* Properties of the failure paths and of the order of the client calls *)

RemoteUntouched == remoteTree = before.tree /\ stateFile = before.stateFile

\* C21: when reading a local file fails in buildLocalState the run ends
\* 'failed' at once: no local state is kept, no client is created and no client
\* call is made or started (no connect, upload, deletion or publish).
C21_LocalReadFailureAborts ==
    (failed = "Failed to calculate hash" \/ error = "Failed to calculate hash") =>
        /\ pc = "done"
        /\ failed = "Failed to calculate hash"
        /\ outputs["sync-status"] = "failed"
        /\ localState = Null
        /\ client = "none"
        /\ calls = <<>>
        /\ inFlight = <<>>
        /\ RemoteUntouched

C21_Witness ==
    /\ pc = "done"
    /\ failed = "Failed to calculate hash"
    /\ Cardinality(LocalFiles) = 2
    /\ RemoteFilesIn(before.tree) # {}

\* C22: when connect fails the run ends 'failed' at once: connect is the only
\* client call, the state file is not retrieved, nothing is compared, uploaded
\* or deleted and no state file is published.
C22_ConnectFailureAborts ==
    Call("connect", "", FALSE) \in CallsMade =>
        /\ calls = <<Call("connect", "", FALSE)>>
        /\ pc = "done"
        /\ failed = "Failed to connect"
        /\ outputs["sync-status"] = "failed"
        /\ remoteState = Null
        /\ comparison = NewResult
        /\ inFlight = <<>>
        /\ RemoteUntouched

C22_Witness ==
    /\ pc = "done"
    /\ Call("connect", "", FALSE) \in CallsMade
    /\ localState # Null
    /\ Len(localState.files) = 2
    /\ before.stateFile # Absent

DisconnectCalls == {j \in 1..Len(calls) : calls[j].op = "disconnect"}

ConnectSucceeded == Call("connect", "", TRUE) \in CallsMade

\* C23: once connect has succeeded disconnect is called exactly once, as the
\* last client call before the run ends, whether the run succeeds or fails in
\* retrieval, upload, deletion or publish; it is not called otherwise; and a
\* disconnect whose closing fails leaves the outcome what the run made it.
C23_DisconnectOnce ==
    /\ Cardinality(DisconnectCalls) <= 1
    /\ (pc # "done" \/ ~ConnectSucceeded) => DisconnectCalls = {}
    /\ (pc = "done" /\ ConnectSucceeded) =>
        /\ DisconnectCalls = {Len(calls)}
        /\ failed = error
        /\ outputs["sync-status"] = IF error = "none" THEN "success" ELSE "failed"

C23_Witness ==
    /\ pc = "done"
    /\ Call("disconnect", "", FALSE) \in CallsMade
    /\ failed = "none"
    /\ filesUploaded = 2

CallsOf(op, p) == {j \in 1..Len(calls) : calls[j].op = op /\ calls[j].path = p}

\* C24: no transfer is tried again: in one run uploadFile is called at most
\* once for each entry of filesToUpload and deleteFile at most once for each
\* path of filesToDelete, failed calls included.
C24_NoRetry ==
    \A p \in Paths :
        /\ Cardinality(CallsOf("uploadFile", p))
                <= Cardinality(UploadIndexes(comparison, p))
        /\ Cardinality(CallsOf("deleteFile", p))
                <= Cardinality(DeleteIndexes(comparison, p))
        /\ Cardinality(CallsOf("uploadFile", p)) <= 1
        /\ Cardinality(CallsOf("deleteFile", p)) <= 1

C24_Witness ==
    /\ pc = "done"
    /\ \E p \in Paths : Call("deleteFile", p, FALSE) \in CallsMade
    /\ \E p \in Paths : Call("uploadFile", p, TRUE) \in CallsMade

\* C27: the client calls of a run are made one at a time: at most one call is
\* in flight, run() is suspended at that call until it settles, and so at most
\* one upload (with the directories it creates) is under way at any time.
C27_OneCallInFlight ==
    /\ Len(inFlight) <= 1
    /\ inFlight # <<>> => inFlight = <<NextCall>>
    /\ Cardinality({j \in 1..Len(inFlight) :
            inFlight[j].op \in {"uploadFile", "uploadState"}}) <= 1

C27_Witness ==
    /\ inFlight = <<[op |-> "uploadFile", path |-> "b.txt"]>>
    /\ Call("uploadFile", "a.txt", TRUE) \in CallsMade

UploadPaths(plan) ==
    {plan.filesToUpload[k].remotePath : k \in 1..Len(plan.filesToUpload)}

DeletePaths(plan) == {plan.filesToDelete[k] : k \in 1..Len(plan.filesToDelete)}

\* C28: the paths of filesToUpload and the paths of filesToDelete are disjoint,
\* and no uploadFile call follows a deleteFile call: the deletions of a run
\* start when every upload of its plan has completed.
C28_UploadsBeforeDeletes ==
    /\ UploadPaths(comparison) \cap DeletePaths(comparison) = {}
    /\ \A i \in 1..Len(calls), j \in 1..Len(calls) :
        (i < j /\ calls[i].op = "deleteFile") => calls[j].op # "uploadFile"
    /\ (\E j \in 1..Len(calls) : calls[j].op = "deleteFile") =>
        \A p \in UploadPaths(comparison) : Call("uploadFile", p, TRUE) \in CallsMade

C28_Witness ==
    /\ pc = "done"
    /\ failed = "none"
    /\ UploadPaths(comparison) # {}
    /\ \E p \in DeletePaths(comparison) : Call("deleteFile", p, TRUE) \in CallsMade

-----------------------------------------------------------------------------
(* Properties of downloadRemoteState and uploadState on a client *)

\* C25: downloadRemoteState never throws. On a client with exists() it asks
\* exists first and, told the file is absent, returns null without a download.
\* On a client without exists() the first call is a download that decides:
\* when it fails the file counts as absent (null, nothing more is called),
\* when it succeeds the file counts as present and is downloaded.
C25_ExistenceCheck ==
    rtLast # <<>> =>
        LET got == rtLast[1]
        IN /\ ~got.threw
           /\ Len(got.calls) >= 1
           /\ rtClient.file = Absent => (~got.calls[1].ok /\ got.state = Null)
           /\ ~got.calls[1].ok => (Len(got.calls) = 1 /\ got.state = Null)
           /\ got.calls[1].ok =>
                (Len(got.calls) = 2 /\ got.calls[2].op = "downloadFile")
           /\ got.calls[1].op = IF rtClient.hasExists THEN "exists" ELSE "downloadFile"
           /\ ~rtClient.hasExists =>
                \A j \in 1..Len(got.calls) : got.calls[j].op # "exists"

C25_Witness ==
    /\ rtLast # <<>>
    /\ ~rtClient.hasExists
    /\ rtLast[1].calls = <<Call("downloadFile", StateFileName, TRUE),
                           Call("downloadFile", StateFileName, TRUE)>>
    /\ HasFiles(rtLast[1].state)
    /\ Len(rtLast[1].state.files) = 2

\* the state file was written by uploadState and then read back in full
ReadBack ==
    /\ rtLast # <<>>
    /\ rtClient.written
    /\ rtLast[1].calls[Len(rtLast[1].calls)] = Call("downloadFile", StateFileName, TRUE)

\* C26: what downloadRemoteState parses from the file uploadState wrote for a
\* manifest m equals m: the same version and lastSync and, path by path in the
\* same order, the same hash, size, mtime and localPath.
C26_RoundTrip ==
    ReadBack =>
        LET got == rtLast[1].state
        IN /\ got = rtManifest
           /\ got.version = rtManifest.version
           /\ got.lastSync = rtManifest.lastSync
           /\ Len(got.files) = Len(rtManifest.files)
           /\ \A k \in 1..Len(got.files) :
                /\ got.files[k].key = rtManifest.files[k].key
                /\ got.files[k].value.hash = rtManifest.files[k].value.hash
                /\ got.files[k].value.size = rtManifest.files[k].value.size
                /\ got.files[k].value.mtime = rtManifest.files[k].value.mtime
                /\ got.files[k].value.localPath = rtManifest.files[k].value.localPath

C26_Witness ==
    /\ ReadBack
    /\ Len(rtManifest.files) = 2
    /\ rtManifest.files[1].key = "toString"
    /\ rtManifest.files[1].value.size # rtManifest.files[2].value.size
    /\ rtManifest.version = "0.9.0"

-----------------------------------------------------------------------------
(* Properties of the counts of compareStates and generateSyncSummary *)

\* C29: for every plan: stats.new + stats.modified = |filesToUpload|,
\* stats.deleted = |filesToDelete|, stats.new + stats.modified +
\* stats.unchanged = |local.files|, and the summary reports toUpload =
\* |filesToUpload|, toDelete = |filesToDelete| and total = the number of
\* distinct paths of the local and the remote manifest together.
C29_CountsAddUp ==
    \A k \in 1..Len(cmpLog) :
        LET c == cmpLog[k]
        IN /\ c.out.stats.new + c.out.stats.modified = Len(c.out.filesToUpload)
           /\ c.out.stats.deleted = Len(c.out.filesToDelete)
           /\ c.out.stats.new + c.out.stats.modified + c.out.stats.unchanged
                = Len(c.local.files)
           /\ c.summary.toUpload = Len(c.out.filesToUpload)
           /\ c.summary.toDelete = Len(c.out.filesToDelete)
           /\ c.summary.total =
                Cardinality(KeySet(c.local.files) \cup KeySet(EntriesOf(c.remote)))

-----------------------------------------------------------------------------
(* Runs one after the other against the same remote root, the local tree   *)
(* edited between them                                                     *)

\* the workflow calls run() again after the local tree was edited: the run
\* scans the tree as it is now, the remote root is as the run before left it
StartNextRunAfterEdit ==
    /\ pc = "done"
    /\ runNo < MaxRuns
    /\ runNo' = runNo + 1
    /\ prev' = [ok |-> failed = "none", dryRun |-> inputs.dryRun,
                localTree |-> localTree, localState |-> localState,
                filesDeleted |-> filesDeleted]
    /\ \E t \in Trees({"c1", "c2"}) :
            /\ t # localTree
            /\ localTree' = t
    /\ \E f \in Flags :
            inputs' = WithCredentials(f, inputs)
    /\ before' = [tree |-> remoteTree, stateFile |-> stateFile]
    /\ pc' = "start"
    /\ client' = "none"
    /\ localState' = Null
    /\ remoteState' = Null
    /\ comparison' = NewResult
    /\ idx' = 1
    /\ filesUploaded' = 0
    /\ filesDeleted' = 0
    /\ outputs' = [n \in OutputNames |-> "unset"]
    /\ failed' = "none"
    /\ error' = "none"
    /\ calls' = <<>>
    /\ inFlight' = <<>>
    /\ UNCHANGED <<cmpVars, rtVars, tpVars, remoteTree, stateFile>>

ResumeNext == Next \/ StartNextRun \/ StartNextRunAfterEdit

InitResume == CompareIdle /\ RtIdle /\ TpIdle /\ RunsInit

SpecResume == InitResume /\ [][ResumeNext]_vars

\* C30: after any sequence of runs against one remote root, some of them
\* aborted mid-plan and the local tree edited between runs, once a run that is
\* no dry run completes successfully, the remote content of every local path
\* equals that path's local content at that run.
C30_SuccessMeansDeployed ==
    (pc = "done" /\ failed = "none" /\ ~inputs.dryRun) =>
        \A p \in LocalFiles : remoteTree[p] = localTree[p]

-----------------------------------------------------------------------------
(* The published manifest and the remote tree *)

\* the state file text holds a manifest, and every path it lists is a file of
\* tree whose fingerprint is the hash listed
ManifestMatches(text, tree) ==
    /\ text.kind = "text"
    /\ ~JsonParseThrows(text)
    /\ HasFiles(JsonParse(text))
    /\ LET files == JsonParse(text).files
       IN \A n \in 1..Len(files) :
            /\ files[n].key \in Paths
            /\ tree[files[n].key] # NoFile
            /\ Md5(tree[files[n].key]) = HashOf(files[n].value)

\* C31: after a successful run that is no dry run, the published manifest is
\* consistent with the remote tree (every path it lists is a remote file whose
\* fingerprint is the hash listed), provided the manifest before the run was
\* consistent with the remote tree, or absent.
C31_PublishedMatchesRemote ==
    (/\ pc = "done"
     /\ failed = "none"
     /\ ~inputs.dryRun
     /\ (before.stateFile = Absent \/ ManifestMatches(before.stateFile, before.tree)))
        => /\ stateFile = JsonStringify(localState)
           /\ ManifestMatches(stateFile, remoteTree)

\* a successful run over a consistent manifest that left one file unchanged and
\* uploaded another
C31_Witness ==
    /\ pc = "done"
    /\ failed = "none"
    /\ ~inputs.dryRun
    /\ ManifestMatches(before.stateFile, before.tree)
    /\ comparison.stats.unchanged >= 1
    /\ Len(comparison.filesToUpload) >= 1
    /\ stateFile # before.stateFile

-----------------------------------------------------------------------------
(* Recovery of an aborted run by running again *)

\* the transport of this run failed only when asked to delete a file that does
\* not exist, and failed every time it was asked that
FailsOnlyOnMissingDelete ==
    \A j \in 1..Len(calls) :
        IF calls[j].op = "deleteFile"
        THEN calls[j].ok <=> before.tree[calls[j].path] # NoFile
        ELSE calls[j].ok

\* this run follows a run that was aborted after it deleted orphans, the local
\* tree as it was
FollowsAbortedDeletion ==
    /\ runNo > 1
    /\ ~prev.ok
    /\ ~prev.dryRun
    /\ prev.filesDeleted >= 1
    /\ prev.localTree = localTree

\* C32: a run with deleteOrphaned that is aborted after deleting some orphans is
\* recovered by running again: the following run over the same local tree,
\* with a transport that only fails when asked to delete a file that does not
\* exist, completes with status 'success' and publishes the manifest.
C32_RerunRecovers ==
    (/\ FollowsAbortedDeletion
     /\ ~inputs.dryRun
     /\ pc = "done"
     /\ localState # Null
     /\ FailsOnlyOnMissingDelete)
        => /\ failed = "none"
           /\ outputs["sync-status"] = "success"
           /\ stateFile = JsonStringify(localState)

-----------------------------------------------------------------------------
(* Forced runs and deletion *)

\* the paths the manifest in the state file text lists
ListedIn(text) ==
    IF text.kind = "text" /\ ~JsonParseThrows(text) /\ HasFiles(JsonParse(text))
    THEN KeySet(JsonParse(text).files)
    ELSE {}

-----------------------------------------------------------------------------
(* The FTP client (ftp-client.js) and the server it talks to               *)
(*                                                                         *)
(* A path string is the sequence of its parts, "/" for each separator:     *)
(* 'a/b/f.txt' is <<"a", "/", "b", "/", "f.txt">>, '' is <<>>.             *)
(* A directory of the server is the sequence of its names from the root.   *)

Slash == "/"

\* the places of the separators in the path string p
Separators(p) == {k \in 1..Len(p) : p[k] = Slash}

LastOf(S) == CHOOSE m \in S : \A n \in S : n <= m

\* path.posix.dirname(p) of a normalized path
PosixDirname(p) ==
    IF Separators(p) = {} THEN <<".">>
    ELSE IF LastOf(Separators(p)) = 1 THEN <<Slash>>
    ELSE SubSeq(p, 1, LastOf(Separators(p)) - 1)

\* path.posix.basename(p) of a normalized path
PosixBasename(p) ==
    IF Separators(p) = {} THEN p
    ELSE SubSeq(p, LastOf(Separators(p)) + 1, Len(p))

\* dirPath.split('/').filter(part => part !== '')
SplitPath(p) == SelectSeq(p, LAMBDA t : t # Slash)

\* the first k parts joined by '/': currentPath after k rounds of the loop
JoinParts(parts, k) ==
    [n \in 1..(2 * k - 1) |-> IF n % 2 = 1 THEN parts[(n + 1) \div 2] ELSE Slash]

\* the string pwd answers for the directory dir
AbsString(dir) ==
    IF dir = <<>> THEN <<Slash>>
    ELSE [n \in 1..(2 * Len(dir)) |-> IF n % 2 = 1 THEN Slash ELSE dir[n \div 2]]

\* the directory the server reads the path string p as, standing in cwd
Resolve(cwd, p) ==
    LET names == SelectSeq(p, LAMBDA t : t \notin {Slash, "."})
    IN IF p # <<>> /\ p[1] = Slash THEN names ELSE cwd \o names

ParentOf(dir) == SubSeq(dir, 1, Len(dir) - 1)

\* the server answers every command: CWD enters a directory that exists and
\* may be entered; MKD creates a directory that is not there under a parent
\* that is there and writable; STOR stores a file unless the disk is full
NoError == [code |-> 0, message |-> "none"]

SrvPwd(srv) == [srv |-> srv, ok |-> TRUE, error |-> NoError, value |-> AbsString(srv.cwd)]

SrvCd(srv, p) ==
    LET at == Resolve(srv.cwd, p)
    IN IF at \in srv.dirs \ srv.locked
       THEN [srv |-> [srv EXCEPT !.cwd = at], ok |-> TRUE, error |-> NoError]
       ELSE [srv |-> srv, ok |-> FALSE,
             error |-> [code |-> 550, message |-> "Failed to change directory"]]

SrvMkd(srv, p) ==
    LET at == Resolve(srv.cwd, p)
    IN IF at \in srv.dirs
       THEN [srv |-> srv, ok |-> FALSE, error |-> srv.existsReply]
       ELSE IF ParentOf(at) \in srv.dirs \ srv.readonly
       THEN [srv |-> [srv EXCEPT !.dirs = @ \cup {at}], ok |-> TRUE, error |-> NoError]
       ELSE [srv |-> srv, ok |-> FALSE,
             error |-> [code |-> 550, message |-> "Permission denied"]]

SrvUploadFrom(srv, name) ==
    IF srv.full
    THEN [srv |-> srv, ok |-> FALSE,
          error |-> [code |-> 552, message |-> "Disk full"]]
    ELSE [srv |-> [srv EXCEPT !.files = @ \cup {srv.cwd \o name}],
          ok |-> TRUE, error |-> NoError]

\* mkdError.message.includes('exists')
IncludesExists(message) == message \in {"File exists", "Directory already exists"}

\* a call of the basic-ftp client as the FtpClient made it: the command, its
\* argument, how it ended (the error it rejected with) and the directory or
\* file the server read it as
FtpCall(cmd, arg, reply, at) ==
    [cmd |-> cmd, arg |-> arg, ok |-> reply.ok, error |-> reply.error, at |-> at]

\* faulty variant: every failure of MKD with code 550 is taken for 'exists'
MkdTolerated_Any550(reply) == reply.ok \/ reply.error.code = 550

\* MKD went through, or failed with code 550 and a message holding 'exists'
MkdTolerated(reply) ==
    reply.ok \/ (reply.error.code = 550 /\ IncludesExists(reply.error.message))

\* the for loop of ensureRemoteDir from its k-th part on (currentPath is
\* JoinParts(parts, k)): cd into the prefix and back to '/', MKD when either
\* cd failed
RECURSIVE EnsureParts(_, _, _, _)

\* the catch block of the probe: MKD of the prefix went as mkd says; the loop
\* goes on when that is tolerated, else the error is thrown
CreateDir(srv, log, parts, k, mkd) ==
    IF MkdTolerated(mkd)
    THEN EnsureParts(mkd.srv,
            Append(log, FtpCall("MKD", JoinParts(parts, k), mkd,
                                Resolve(srv.cwd, JoinParts(parts, k)))),
            parts, k + 1)
    ELSE [srv |-> mkd.srv,
          log |-> Append(log, FtpCall("MKD", JoinParts(parts, k), mkd,
                                      Resolve(srv.cwd, JoinParts(parts, k)))),
          threw |-> TRUE, error |-> mkd.error]

\* the prefix was entered and cd('/') went as cdRoot says
BackToRoot(srv, log, parts, k, cdRoot) ==
    IF cdRoot.ok
    THEN EnsureParts(cdRoot.srv, Append(log, FtpCall("cd", <<Slash>>, cdRoot, <<>>)),
                     parts, k + 1)
    ELSE CreateDir(srv, Append(log, FtpCall("cd", <<Slash>>, cdRoot, <<>>)), parts, k,
                   SrvMkd(srv, JoinParts(parts, k)))

\* cd into the prefix went as cdIn says
ProbeDir(srv, log, parts, k, cdIn) ==
    IF cdIn.ok
    THEN BackToRoot(cdIn.srv,
            Append(log, FtpCall("cd", JoinParts(parts, k), cdIn,
                                Resolve(srv.cwd, JoinParts(parts, k)))),
            parts, k, SrvCd(cdIn.srv, <<Slash>>))
    ELSE CreateDir(srv,
            Append(log, FtpCall("cd", JoinParts(parts, k), cdIn,
                                Resolve(srv.cwd, JoinParts(parts, k)))),
            parts, k, SrvMkd(srv, JoinParts(parts, k)))

EnsureParts(srv, log, parts, k) ==
    IF k > Len(parts)
    THEN [srv |-> srv, log |-> log, threw |-> FALSE, error |-> NoError]
    ELSE ProbeDir(srv, log, parts, k, SrvCd(srv, JoinParts(parts, k)))

\* the walk of ensureRemoteDir ended as walked says
EnsureResult(dirPath, walked) ==
    [srv |-> walked.srv, log |-> walked.log, threw |-> walked.threw,
     message |-> IF walked.threw
                 THEN <<"Failed to create remote directory", dirPath,
                        walked.error.message>>
                 ELSE <<>>]

\* FtpClient.ensureRemoteDir(dirPath): the server after it, the commands sent,
\* and the error thrown if any
FtpEnsureRemoteDir(srv, dirPath) ==
    IF dirPath \in {<<Slash>>, <<".">>, <<>>}
    THEN [srv |-> srv, log |-> <<>>, threw |-> FALSE, message |-> <<>>]
    ELSE EnsureResult(dirPath, EnsureParts(srv, <<>>, SplitPath(dirPath), 1))

LocalPath == "/local/file.txt"

\* uploadFrom(localPath, remoteFileName) went as put says
UploadPut(srv, log, remoteFileName, put) ==
    [srv |-> put.srv,
     log |-> Append(log, FtpCall("uploadFrom", remoteFileName, put,
                                 srv.cwd \o remoteFileName)),
     threw |-> ~put.ok, message |-> <<put.error.message>>]

\* cd(remoteDir) went as cdDir says; uploadFrom follows when it went through
UploadInto(srv, log, remoteDir, remoteFileName, cdDir) ==
    IF ~cdDir.ok
    THEN [srv |-> cdDir.srv,
          log |-> Append(log, FtpCall("cd", remoteDir, cdDir, Resolve(srv.cwd, remoteDir))),
          threw |-> TRUE, message |-> <<cdDir.error.message>>]
    ELSE UploadPut(cdDir.srv,
            Append(log, FtpCall("cd", remoteDir, cdDir, Resolve(srv.cwd, remoteDir))),
            remoteFileName, SrvUploadFrom(cdDir.srv, remoteFileName))

\* ensureRemoteDir went as ensured says; cd(remoteDir) follows unless it threw
UploadAfterEnsure(ensured, remoteDir, remoteFileName) ==
    IF ensured.threw
    THEN [srv |-> ensured.srv, log |-> ensured.log, threw |-> TRUE,
          message |-> ensured.message]
    ELSE UploadInto(ensured.srv, ensured.log, remoteDir, remoteFileName,
                    SrvCd(ensured.srv, remoteDir))

\* the inner try block of uploadFile: ensureRemoteDir, cd and uploadFrom for a
\* path in a subdirectory, uploadFrom alone for a root-level path
UploadTry(srv, remoteDir, remoteFileName, inSubdir) ==
    IF ~inSubdir
    THEN UploadPut(srv, <<>>, remoteFileName, SrvUploadFrom(srv, remoteFileName))
    ELSE UploadAfterEnsure(FtpEnsureRemoteDir(srv, remoteDir), remoteDir, remoteFileName)

\* cd(originalDir) of the finally block went as back says
CdBack(tried, originalDir, back) ==
    [srv |-> back.srv,
     log |-> Append(tried.log, FtpCall("cd", originalDir, back,
                                       Resolve(tried.srv.cwd, originalDir))),
     threw |-> tried.threw \/ ~back.ok,
     message |-> IF back.ok THEN tried.message ELSE <<back.error.message>>]

\* faulty variant: the working directory is restored only after an upload
\* that went through
UploadFinally_OnSuccessOnly(tried, originalDir, inSubdir) ==
    IF ~inSubdir \/ tried.threw THEN tried
    ELSE CdBack(tried, originalDir, SrvCd(tried.srv, originalDir))

\* the finally block of uploadFile: cd(originalDir) for a path in a
\* subdirectory, whatever the try block did; an error of this cd replaces the
\* one of the try block
UploadFinally(tried, originalDir, inSubdir) ==
    IF ~inSubdir THEN tried
    ELSE CdBack(tried, originalDir, SrvCd(tried.srv, originalDir))

\* remoteDir !== '.' && remoteDir !== '/' && remoteDir !== ''
InSubdir(remoteDir) == remoteDir \notin {<<".">>, <<Slash>>, <<>>}

\* the outer catch of uploadFile: the error of the call is rethrown with the
\* prefix; pwd is the first command of the call
UploadResult(srv, originalDir, done) ==
    [srv |-> done.srv,
     log |-> <<FtpCall("pwd", <<>>, originalDir, srv.cwd)>> \o done.log,
     threw |-> done.threw,
     message |-> IF done.threw
                 THEN <<"Failed to upload file", LocalPath>> \o done.message
                 ELSE <<>>]

\* pwd answered originalDir: the try and the finally block follow
UploadFrom(srv, remotePath, originalDir) ==
    UploadResult(srv, originalDir,
        UploadFinally(
            UploadTry(originalDir.srv, PosixDirname(remotePath),
                      PosixBasename(remotePath), InSubdir(PosixDirname(remotePath))),
            originalDir.value, InSubdir(PosixDirname(remotePath))))

\* FtpClient.uploadFile(localPath, remotePath)
FtpUploadFile(srv, remotePath) == UploadFrom(srv, remotePath, SrvPwd(srv))

-----------------------------------------------------------------------------
(* FtpClient.connect: access raced against the timeout *)

\* config.timeout: not given (0 stands for undefined), or 3000 ms
ConfigTimeouts == {0, 3000}

\* this.timeout = config.timeout || 10000
TimeoutOf(configTimeout) == IF configTimeout = 0 THEN DefaultTimeout ELSE configTimeout

\* the catch block of connect: close the client, rethrow with the prefix
ConnectRejected(message) ==
    [ftpConn EXCEPT !.pc = "rejected", !.closed = @ + 1,
                    !.error = <<"Failed to connect to FTP server">> \o message]

\* connect(): access is started and the timer is set
FtpConnect ==
    /\ ftpConn.pc = "idle"
    /\ ftpConn' = [ftpConn EXCEPT !.pc = "racing", !.access = "pending",
                                  !.timer = "armed"]
    /\ UNCHANGED <<cmpVars, rtVars, runVars, ftpSrv, ftpLast, sftpSrv, sftpLast>>

\* access resolves: connect resolves if the race is still open
FtpAccessResolves ==
    /\ ftpConn.access = "pending"
    /\ ftpConn' = IF ftpConn.pc = "racing"
                  THEN [ftpConn EXCEPT !.access = "ok", !.pc = "resolved"]
                  ELSE [ftpConn EXCEPT !.access = "ok"]
    /\ UNCHANGED <<cmpVars, rtVars, runVars, ftpSrv, ftpLast, sftpSrv, sftpLast>>

\* access rejects: connect closes the client and rejects if the race is still
\* open
FtpAccessRejects ==
    /\ ftpConn.access = "pending"
    /\ ftpConn' = IF ftpConn.pc = "racing"
                  THEN [ConnectRejected(<<"Connection failed">>) EXCEPT !.access = "failed"]
                  ELSE [ftpConn EXCEPT !.access = "failed"]
    /\ UNCHANGED <<cmpVars, rtVars, runVars, ftpSrv, ftpLast, sftpSrv, sftpLast>>

\* faulty variant: the timeout rejects connect and leaves the client open
FtpTimerFires_NoClose ==
    /\ ftpConn.timer = "armed"
    /\ ftpConn' = IF ftpConn.pc = "racing"
                  THEN [ftpConn EXCEPT !.timer = "fired", !.pc = "rejected",
                            !.error = <<"Failed to connect to FTP server",
                                        "Connection timeout after",
                                        ftpConn.timeout \div 1000, "seconds">>]
                  ELSE [ftpConn EXCEPT !.timer = "fired"]
    /\ UNCHANGED <<cmpVars, rtVars, runVars, ftpSrv, ftpLast, sftpSrv, sftpLast>>

\* the timeout elapses: connect closes the client and rejects if the race is
\* still open; after the race nobody listens
FtpTimerFires ==
    /\ ftpConn.timer = "armed"
    /\ ftpConn' = IF ftpConn.pc = "racing"
                  THEN [ConnectRejected(<<"Connection timeout after",
                                          ftpConn.timeout \div 1000, "seconds">>)
                            EXCEPT !.timer = "fired"]
                  ELSE [ftpConn EXCEPT !.timer = "fired"]
    /\ UNCHANGED <<cmpVars, rtVars, runVars, ftpSrv, ftpLast, sftpSrv, sftpLast>>

-----------------------------------------------------------------------------
(* One call of uploadFile or ensureRemoteDir on a connected FtpClient *)

\* the directories a server may hold when the client connects
ServerDirs ==
    {<<>>, <<"site">>, <<"a">>, <<"a", "b">>, <<"site", "a">>, <<"site", "a", "b">>}

\* the servers: the directories there (each with its parent), the login
\* directory, at most one directory that may not be entered, at most one that
\* may not be written to, the reply to MKD of a directory that is there, and
\* whether the disk is full
FtpServers ==
    {srv \in [cwd : {<<>>, <<"site">>},
              dirs : SUBSET ServerDirs,
              locked : {{}} \cup {{d} : d \in ServerDirs},
              readonly : {{}} \cup {{d} : d \in ServerDirs},
              existsReply : {[code |-> 550, message |-> "File exists"],
                             [code |-> 550, message |-> "Already there"],
                             [code |-> 521, message |-> "Directory already exists"]},
              files : {{}},
              full : BOOLEAN] :
        /\ <<>> \in srv.dirs
        /\ srv.cwd \in srv.dirs
        /\ \A d \in srv.dirs : d # <<>> => ParentOf(d) \in srv.dirs
        /\ srv.locked \subseteq srv.dirs \ {<<>>, srv.cwd}
        /\ srv.readonly \subseteq srv.dirs}

\* the remote paths and the directory paths the client is called with
FtpRemotePaths ==
    {<<"f.txt">>, <<Slash, "f.txt">>, <<"a", Slash, "f.txt">>,
     <<"a", Slash, "b", Slash, "f.txt">>, <<Slash, "a", Slash, "b", Slash, "f.txt">>}

FtpDirPaths ==
    {<<Slash>>, <<".">>, <<>>, <<"a">>, <<"a", Slash, "b">>, <<Slash, "a", Slash, "b">>}

FtpInit ==
    /\ \E t \in ConfigTimeouts :
            ftpConn = [pc |-> "idle", timeout |-> TimeoutOf(t), access |-> "none",
                       timer |-> "none", closed |-> 0, error |-> <<>>]
    /\ ftpSrv \in FtpServers
    /\ ftpLast = <<>>
    /\ sftpSrv = [dirStat |-> "directory", mkdir |-> "ok", fileStat |-> "file",
                  put |-> <<"ok", "ok">>, delete |-> "ok"]
    /\ sftpLast = <<>>
    /\ CompareIdle
    /\ RtIdle
    /\ RunIdle

CallFtpUploadFile ==
    /\ ftpConn.pc = "resolved"
    /\ ftpLast = <<>>
    /\ \E remotePath \in FtpRemotePaths :
        LET out == FtpUploadFile(ftpSrv, remotePath)
        IN /\ ftpSrv' = out.srv
           /\ ftpLast' = <<[fn |-> "uploadFile", arg |-> remotePath,
                            before |-> ftpSrv, out |-> out]>>
    /\ UNCHANGED <<cmpVars, rtVars, runVars, ftpConn, sftpSrv, sftpLast>>

CallFtpEnsureRemoteDir ==
    /\ ftpConn.pc = "resolved"
    /\ ftpLast = <<>>
    /\ \E dirPath \in FtpDirPaths :
        LET out == FtpEnsureRemoteDir(ftpSrv, dirPath)
        IN /\ ftpSrv' = out.srv
           /\ ftpLast' = <<[fn |-> "ensureRemoteDir", arg |-> dirPath,
                            before |-> ftpSrv, out |-> out]>>
    /\ UNCHANGED <<cmpVars, rtVars, runVars, ftpConn, sftpSrv, sftpLast>>

FtpNext ==
    \/ FtpConnect
    \/ FtpAccessResolves
    \/ FtpAccessRejects
    \/ FtpTimerFires
    \/ CallFtpUploadFile
    \/ CallFtpEnsureRemoteDir

SpecFtp == FtpInit /\ [][FtpNext]_vars

-----------------------------------------------------------------------------
(* Properties of the FTP client *)

TimedOut(seconds) ==
    <<"Failed to connect to FTP server", "Connection timeout after", seconds, "seconds">>

\* C35: connect either resolves after access succeeded or rejects with 'Failed
\* to connect to FTP server: ...'; when access fails, or has not completed when
\* the configured timeout (10000 ms by default) elapses, connect rejects and
\* client.close is called; a connect that resolved, access having completed
\* before the timeout, never closes the client.
C35_ConnectRace ==
    /\ ftpConn.pc = "resolved" => ftpConn.access = "ok" /\ ftpConn.closed = 0
    /\ ftpConn.pc = "rejected" =>
        /\ ftpConn.closed = 1
        /\ ftpConn.error \in {<<"Failed to connect to FTP server", "Connection failed">>,
                              TimedOut(ftpConn.timeout \div 1000)}
        /\ ftpConn.error = TimedOut(ftpConn.timeout \div 1000) => ftpConn.timer = "fired"
        /\ ftpConn.error # TimedOut(ftpConn.timeout \div 1000) => ftpConn.access = "failed"
    /\ ftpConn.access = "failed" => ftpConn.pc = "rejected"
    /\ (ftpConn.timer = "fired" /\ ftpConn.access = "pending") =>
            /\ ftpConn.pc = "rejected"
            /\ ftpConn.error = TimedOut(ftpConn.timeout \div 1000)
    /\ ftpConn.pc = "idle" => ftpConn.closed = 0
    /\ ftpConn.pc = "racing" => ftpConn.closed = 0 /\ ftpConn.access = "pending"
                                    /\ ftpConn.timer = "armed"

\* the default timeout elapsed with access still pending
C35_Witness ==
    /\ ftpConn.pc = "rejected"
    /\ ftpConn.timer = "fired"
    /\ ftpConn.access = "pending"
    /\ ftpConn.closed = 1
    /\ ftpConn.error = TimedOut(10)

\* the commands cmd of the call logged
CommandsOf(log, cmd) == {k \in 1..Len(log) : log[k].cmd = cmd}

\* C36: uploadFile into a subdirectory restores the working directory: after it
\* returns or throws, the working directory of the client is the one pwd
\* answered at the start of the call, also when the upload or the creation of
\* the directory failed; for a root-level path it never issues cd.
C36_WorkingDirectoryRestored ==
    \A j \in 1..Len(ftpLast) :
        ftpLast[j].fn = "uploadFile" =>
            /\ ftpLast[j].out.srv.cwd = ftpLast[j].before.cwd
            /\ ftpSrv.cwd = ftpLast[j].before.cwd
            /\ PosixDirname(ftpLast[j].arg) \in {<<".">>, <<Slash>>} =>
                    CommandsOf(ftpLast[j].out.log, "cd") = {}

\* an uploadFile into a subdirectory that threw after the working directory had
\* moved away from a login directory other than '/'
C36_Witness ==
    /\ ftpLast # <<>>
    /\ ftpLast[1].fn = "uploadFile"
    /\ ftpLast[1].out.threw
    /\ ftpLast[1].before.cwd # <<>>
    /\ \E k \in CommandsOf(ftpLast[1].out.log, "cd") :
            /\ ftpLast[1].out.log[k].ok
            /\ ftpLast[1].out.log[k].at # ftpLast[1].before.cwd
            /\ k < Len(ftpLast[1].out.log)
    /\ ftpSrv.cwd = ftpLast[1].before.cwd

\* the commands of the call logged that name a directory by its parts from the
\* top: the cd and MKD of ensureRemoteDir, and cd(remoteDir)
ProbesOf(log) ==
    {k \in 1..Len(log) :
        /\ log[k].cmd \in {"cd", "MKD"}
        /\ log[k].arg # <<>>
        /\ log[k].arg[1] # Slash}

\* the first n components of the directory of remotePath, resolved against cwd
PrefixAt(cwd, remotePath, n) ==
    LET dir == Resolve(cwd, PosixDirname(remotePath))
        parts == SplitPath(PosixDirname(remotePath))
    IN SubSeq(dir, 1, Len(dir) - Len(parts) + n)

\* C37: for any working directory at call time, a successful
\* uploadFile(local, remotePath) stores the file at remotePath resolved against
\* that working directory, and every directory it creates or probes in
\* ensureRemoteDir is the corresponding prefix of the directory of remotePath
\* resolved against that same working directory.
C37_PathsResolvedAgainstStart ==
    \A j \in 1..Len(ftpLast) :
        (ftpLast[j].fn = "uploadFile" /\ ~ftpLast[j].out.threw) =>
            LET call == ftpLast[j]
                stored == Resolve(call.before.cwd, call.arg)
            IN /\ stored \in call.out.srv.files
               /\ \A k \in CommandsOf(call.out.log, "uploadFrom") :
                        call.out.log[k].at = stored
               /\ \A k \in ProbesOf(call.out.log) :
                        call.out.log[k].at =
                            PrefixAt(call.before.cwd, call.arg,
                                     (Len(call.out.log[k].arg) + 1) \div 2)

\* the commands logged from the n-th on are those of a walk over the parts from
\* the k-th on: cd into the prefix; when that went through, cd('/') and no MKD;
\* when it failed, MKD of the prefix, and the walk goes on only when MKD went
\* through or failed with code 550 and a message holding 'exists', else it
\* ends there with the error thrown
RECURSIVE WalkedTopDown(_, _, _, _, _)
WalkedTopDown(log, threw, parts, k, n) ==
    IF k > Len(parts) THEN n = Len(log) + 1 /\ ~threw
    ELSE /\ n + 1 <= Len(log)
         /\ log[n].cmd = "cd"
         /\ log[n].arg = JoinParts(parts, k)
         /\ IF log[n].ok
            THEN /\ log[n + 1].cmd = "cd"
                 /\ log[n + 1].arg = <<Slash>>
                 /\ WalkedTopDown(log, threw, parts, k + 1, n + 2)
            ELSE /\ log[n + 1].cmd = "MKD"
                 /\ log[n + 1].arg = JoinParts(parts, k)
                 /\ IF \/ log[n + 1].ok
                       \/ /\ log[n + 1].error.code = 550
                          /\ IncludesExists(log[n + 1].error.message)
                    THEN WalkedTopDown(log, threw, parts, k + 1, n + 2)
                    ELSE n + 1 = Len(log) /\ threw

-----------------------------------------------------------------------------
(* SshSftpClient.uploadFile (sftp-client.js) against the answers of the     *)
(* ssh2-sftp-client it wraps                                               *)

\* error.message.includes('exists')
SftpIncludesExists(message) == message = "Directory already exists"

\* what the wrapped client answers: stat of the directory (a directory, a file,
\* or a rejection), mkdir, stat of the remote file, the first and the second
\* put, and delete
SftpScripts ==
    [dirStat : {"directory", "file", "No such file"},
     mkdir : {"ok", "Directory already exists", "Permission denied"},
     fileStat : {"file", "No such file"},
     put : {"ok", "Write stream error", "Connection lost"} \X {"ok", "Still failing"},
     delete : {"ok", "Permission denied"}]

SftpCall(cmd, arg, reply) == [cmd |-> cmd, arg |-> arg, ok |-> reply \in {"ok", "directory", "file"},
                              reply |-> reply]

\* SshSftpClient.ensureRemoteDir(dirPath): stat, then a recursive mkdir unless
\* stat found a directory; an error of mkdir is ignored when its message holds
\* 'exists'
SftpEnsureRemoteDir(script, dirPath) ==
    IF dirPath \in {<<Slash>>, <<".">>}
    THEN [log |-> <<>>, threw |-> FALSE, message |-> <<>>]
    ELSE LET stat == SftpCall("stat", dirPath, script.dirStat)
             mkdir == SftpCall("mkdir", dirPath, script.mkdir)
         IN IF script.dirStat = "directory"
            THEN [log |-> <<stat>>, threw |-> FALSE, message |-> <<>>]
            ELSE IF mkdir.ok \/ SftpIncludesExists(script.mkdir)
            THEN [log |-> <<stat, mkdir>>, threw |-> FALSE, message |-> <<>>]
            ELSE [log |-> <<stat, mkdir>>, threw |-> TRUE,
                  message |-> <<"Failed to create remote directory", dirPath,
                                script.mkdir>>]

\* SshSftpClient.uploadFile(localPath, remotePath): ensureRemoteDir of the
\* directory, then one put; every error is rethrown as 'Failed to upload file'
SftpUploadFile(script, remotePath) ==
    LET remoteDir == PosixDirname(remotePath)
        ensured == SftpEnsureRemoteDir(script, remoteDir)
        put == SftpCall("put", remotePath, script.put[1])
    IN IF ensured.threw
       THEN [log |-> ensured.log, threw |-> TRUE,
             message |-> <<"Failed to upload file", LocalPath>> \o ensured.message]
       ELSE [log |-> ensured.log \o <<put>>, threw |-> ~put.ok,
             message |-> IF put.ok THEN <<>>
                         ELSE <<"Failed to upload file", LocalPath, script.put[1]>>]

SftpRemotePaths == {<<Slash, "remote", Slash, "test.txt">>, <<Slash, "test.txt">>}

SftpInit ==
    /\ sftpSrv \in SftpScripts
    /\ sftpLast = <<>>
    /\ ftpConn = [pc |-> "idle", timeout |-> DefaultTimeout, access |-> "none",
                  timer |-> "none", closed |-> 0, error |-> <<>>]
    /\ ftpSrv = [cwd |-> <<>>, dirs |-> {<<>>}, locked |-> {}, readonly |-> {},
                 existsReply |-> [code |-> 550, message |-> "File exists"],
                 files |-> {}, full |-> FALSE]
    /\ ftpLast = <<>>
    /\ CompareIdle
    /\ RtIdle
    /\ RunIdle

CallSftpUploadFile ==
    /\ sftpLast = <<>>
    /\ \E remotePath \in SftpRemotePaths :
        sftpLast' = <<[fn |-> "uploadFile", arg |-> remotePath,
                       out |-> SftpUploadFile(sftpSrv, remotePath)]>>
    /\ UNCHANGED <<cmpVars, rtVars, runVars, ftpConn, ftpSrv, ftpLast, sftpSrv>>

SftpNext == CallSftpUploadFile

SpecSftp == SftpInit /\ [][SftpNext]_vars

SftpCommandsOf(log, cmd) == {k \in 1..Len(log) : log[k].cmd = cmd}

\* C34: uploadFile of the SFTP client recovers from a 'Write stream error' of
\* put: it deletes the remote file if it exists (and does not call delete if it
\* does not), retries put exactly once, succeeds if the retry succeeds, and
\* throws 'Failed to upload file ... after retry' if the retry fails; put is
\* never called more than twice in one uploadFile.
C34_WriteStreamErrorRetried ==
    \A j \in 1..Len(sftpLast) :
        LET out == sftpLast[j].out
            puts == SftpCommandsOf(out.log, "put")
        IN /\ Cardinality(puts) <= 2
           /\ (\E k \in puts : out.log[k].reply = "Write stream error") =>
                /\ Cardinality(puts) = 2
                /\ (SftpCommandsOf(out.log, "delete") # {}) <=> (sftpSrv.fileStat = "file")
                /\ sftpSrv.put[2] = "ok" => ~out.threw
                /\ sftpSrv.put[2] # "ok" =>
                    /\ out.threw
                    /\ out.message = <<"Failed to upload file", LocalPath,
                                       "after retry", sftpSrv.put[2]>>

=============================================================================
